---- MODULE Spec2Model ----
(***************************************************************************)
(* Model of the ingestion coordinator of personal-rag-kb (src/ingest.ts)   *)
(* together with the stores it writes (database.ts, vector-store.ts).      *)
(*                                                                         *)
(* Every CLI invocation is one operating-system process that makes one     *)
(* ingestSource call (cli.ts:48) and then exits (cli.ts:56).  Processes    *)
(* share the lock file, the per-target SQLite files, the ChromaDB          *)
(* collections and the archive directories.  Every file-system call,       *)
(* every awaited database statement and every awaited collaborator call    *)
(* is one atomic step of its process; steps of different processes         *)
(* interleave freely.                                                      *)
(***************************************************************************)
EXTENDS Integers, Sequences, FiniteSets, TLC

\* ---------------------------------------------------------------- bounds
\* Process ids of the CLI processes that may run side by side.
Pids == {1, 2}

\* Time is counted in ticks of fifteen minutes.  The program looks at the
\* clock only to compute the age of the lock file (now - mtime, ingest.ts:50),
\* so the model keeps that age, up to MaxTicks ticks.
MaxTicks == 2

\* ingest.ts:50  (15 * 60 * 1000) milliseconds
StaleMs == 15 * 60 * 1000

\* One tick is as long as the staleness threshold, so that a lock file can be
\* exactly as old as the threshold and older.
TickMs == StaleMs

\* ------------------------------------------------------------- constants
\* ingest.ts:29-45
TARGETS == {"pablo", "paloma", "reels"}

collectionName(t) == IF t = "pablo" THEN "pablo_kb"
                     ELSE IF t = "paloma" THEN "paloma_kb" ELSE "reels_kb"

\* ingest.ts:99  TARGETS['reels'] is always defined, so the fallback
\* TARGETS[targetKeys[0]] is never taken.
refTarget == "reels"

NoLock == [pid |-> 0, age |-> 0]

\* ------------------------------------------------------- input domains
\* Source locators handed to ingestSource; "" is the missing source.
Call(s, tg, tk) == [source |-> s, tags |-> tg, targetKeys |-> tk]

\* The calls made: ingestSource(source, tags, targetKeys).
CallNone == Call("", <<>>, <<"pablo">>)
CallOne == Call("u1", <<"x", "y">>, <<"pablo">>)
CallTwo == Call("u1", <<"x", "y">>, <<"pablo", "reels">>)
CallFrag == Call("u1#frag", <<"x", "x">>, <<"reels", "pablo">>)
CallMirror == Call("u2", <<>>, <<"nope", "pablo">>)
CallOther == Call("u3", <<"y">>, <<"paloma">>)
CallLong == Call("u4", <<>>, <<"pablo">>)
CallThree == Call("u3", <<"y">>, <<"paloma", "pablo">>)

\* What can go wrong outside the program.

\* An environment: the calls the operator makes (any number of times, in
\* any order), the faults that may strike, how many CLI processes may be
\* alive at once, the targets whose archive directory is missing, and
\* whether the reference database is still without tables.  Each behaviour
\* lives in one environment.
World(cs, fs, par, missing, fresh) ==
    [calls |-> cs, faults |-> fs, par |-> par, missing |-> missing, fresh |-> fresh]

Worlds == {World({CallNone, CallOne}, {"crash"}, 2, {}, FALSE),
           World({CallTwo, CallFrag}, {"extract", "classify", "crash"}, 1, {}, FALSE),
           World({CallTwo, CallFrag}, {"db"}, 1, {}, FALSE),
           World({CallTwo, CallFrag}, {"vector", "archive"}, 1, {}, FALSE),
           World({CallTwo, CallMirror}, {"embed"}, 1, {}, FALSE),
           World({CallTwo, CallFrag}, {}, 1, {"pablo"}, FALSE),
           World({CallOne, CallOther}, {}, 1, {"reels"}, FALSE),
           World({CallOne, CallOther}, {}, 1, {}, TRUE),
           World({CallTwo, CallFrag}, {"schema"}, 1, {}, FALSE),
           World({CallTwo, CallFrag}, {}, 1, {"reels"}, FALSE),
           World({CallLong}, {"embed"}, 1, {}, FALSE),
           World({CallOne, CallThree}, {"reset"}, 1, {}, FALSE)}

\* What the classifier (an LLM) may answer.
ClassifierOutputs == {<<"y", "z">>}

\* The extraction collaborator, as a table: "u1" and "u1#frag" normalise to
\* the same locator; "u2" is a different locator serving the same text as
\* "u1" (same content hash); "u4" is a document of eleven chunks, one more
\* than an embedding batch; "u3" is an unrelated one-chunk document.
ingestFromSource(s) ==
    IF s = "u1" THEN
        [source |-> "u1", normalizedSource |-> "n1", contentHash |-> "h1", nchunks |-> 2]
    ELSE IF s = "u1#frag" THEN
        [source |-> "u1#frag", normalizedSource |-> "n1", contentHash |-> "h1", nchunks |-> 2]
    ELSE IF s = "u2" THEN
        [source |-> "u2", normalizedSource |-> "n2", contentHash |-> "h1", nchunks |-> 2]
    ELSE IF s = "u4" THEN
        [source |-> "u4", normalizedSource |-> "n4", contentHash |-> "h4", nchunks |-> 11]
    ELSE
        [source |-> s, normalizedSource |-> "n3", contentHash |-> "h3", nchunks |-> 1]

NoContent == [source |-> "", normalizedSource |-> "", contentHash |-> "", nchunks |-> 0]

\* embedder.ts:34-63 seen from the coordinator: the chunks of a document,
\* chunk_index 0 .. n-1, the text identified by (content hash, index).
chunksOfDocument(ec) ==
    [i \in 1..ec.nchunks |-> [chunk_index |-> i - 1, content |-> <<ec.contentHash, i - 1>>]]

\* ------------------------------------------------------------ variables
VARIABLES
    world,            \* the environment of this behaviour; never changes
    pc,               \* position of each process inside ingestSource
    args,             \* [source, tags, targetKeys] of the call
    lock,             \* the lock file: NoLock or [pid, age in ticks]
    running,          \* the set of pids that are live processes
    lstat,            \* isLockStale: pid read from the lock file
    acquired,         \* createLock returned normally in this call
    calm,             \* nothing createLock looks at changed since it began
    extractedContent,
    classificationTags,
    finalTags,
    embeddedChunks,
    ti,               \* index into targetKeys of the per-target loop
    successfullyIngestedTargets,
    sourceId,
    insertedChunkIds,
    pending,          \* the value of the return statement, before finally
    result,           \* what the caller got
    repoExists,       \* target archive directory exists
    schema,           \* target database has its tables
    sources,          \* committed rows of table sources, per target
    chunks,           \* committed rows of table chunks, per target
    seq,              \* sqlite_sequence: [sources, chunks] per target
    writer,           \* pid holding the database write lock, 0 if none
    txn,              \* uncommitted rows of the open transaction
    vectors,          \* records of the target's ChromaDB collection
    archive,          \* files in the target's archive directory
    log,              \* per call: the collaborator calls and writes made
    collections,      \* names of the ChromaDB collections that exist
    aq,               \* the answerQuery call of the query command
    ck,               \* the chunkContent call under study
    eb                \* the embedChunks call under study

vars == <<world, pc, args, lock, running, lstat, acquired, calm,
          extractedContent, classificationTags, finalTags, embeddedChunks, ti,
          successfullyIngestedTargets, sourceId, insertedChunkIds,
          pending, result, repoExists, schema, sources, chunks, seq,
          writer, txn, vectors, archive, log, collections, aq, ck, eb>>

lockVars == <<lock, running>>
localVars == <<lstat, acquired, calm, extractedContent, classificationTags, finalTags,
               embeddedChunks, ti, successfullyIngestedTargets, sourceId,
               insertedChunkIds, pending, result, log>>
pipeVars == <<extractedContent, classificationTags, finalTags, embeddedChunks, ti,
              successfullyIngestedTargets, sourceId, insertedChunkIds>>
dbVars == <<schema, sources, chunks, seq, writer, txn>>
storeVars == <<world, repoExists, schema, sources, chunks, seq, writer, txn,
               vectors, collections, archive>>
auxVars == <<aq, ck, eb>>

\* ------------------------------------------------------------- results
\* IngestResult, ingest.ts:10-17.  A failure carries no payload.
ErrNoSource == "A source URL or file path is required."
ErrRunning == "An unexpected error occurred during ingestion: Ingestion is already running. Lock file exists."
ErrENOENT == "An unexpected error occurred during ingestion: ENOENT"
ErrTags == "An unexpected error occurred during ingestion: SQLITE_ERROR"
ErrSchema == "An unexpected error occurred during ingestion: SQLITE_CANTOPEN"
ErrExtraction == "Extraction failed"
ErrEmbedding == "Embedding failed"
ErrNoChunks == "No chunks were embedded."

NoResult == [status |-> "none", success |-> FALSE, error |-> "",
             targets |-> <<>>, tags |-> <<>>, chunks |-> 0]

Failure(e) == [status |-> "returned", success |-> FALSE, error |-> e,
               targets |-> <<>>, tags |-> <<>>, chunks |-> 0]

Payload(ts, tg, n) == [status |-> "returned", success |-> Len(ts) > 0, error |-> "",
                       targets |-> ts, tags |-> tg, chunks |-> n]

Thrown == [status |-> "thrown", success |-> FALSE, error |-> "ENOENT",
           targets |-> <<>>, tags |-> <<>>, chunks |-> 0]

NoArgs == [source |-> "", tags |-> <<>>, targetKeys |-> <<>>]
NoTxn == [target |-> "", src |-> <<>>, chunks |-> <<>>]

\* --------------------------------------------------------------- lock
\* Age of the lock file in milliseconds (ingest.ts:50).
ageMs(l) == l.age * TickMs

tooOld_m(l) == ageMs(l) >= StaleMs

\* ingest.ts:50  the age test of isLockStale
tooOld(l) == ageMs(l) > StaleMs

LockPhase == {"createLock", "lk_stat", "lk_read", "lk_kill", "lk_exists2", "lk_write"}

\* What createLock can observe of the lock file.
lockView(l, r) == <<l.pid, ageMs(l) > StaleMs, l.pid \in r>>

May(k) == k \in world.faults

\* calm after a step of process p that leaves the lock file as l and the
\* live processes as r.
calmAfter(p, l, r) ==
    [q \in Pids |->
        IF q # p /\ pc[q] \in LockPhase
        THEN calm[q] /\ lockView(l, r) = lockView(lock, running)
        ELSE calm[q]]

\* ingest.ts:75-83: the call starts; a missing source returns before the
\* try block, so neither createLock nor removeLock runs.
Start(p) ==
    /\ pc[p] = "idle"
    /\ Cardinality(running) < world.par
    /\ \E c \in world.calls :
        /\ args' = [args EXCEPT ![p] = c]
        /\ IF c.source = ""
           THEN /\ pc' = [pc EXCEPT ![p] = "done"]
                /\ result' = [result EXCEPT ![p] = Failure(ErrNoSource)]
           ELSE /\ pc' = [pc EXCEPT ![p] = "createLock"]
                /\ result' = result
    /\ running' = running \cup {p}
    /\ calm' = [calmAfter(p, lock, running \cup {p}) EXCEPT ![p] = TRUE]
    /\ UNCHANGED <<auxVars, lock, lstat, acquired, pipeVars, pending, log, storeVars>>

\* ingest.ts:48  fs.existsSync in isLockStale
LkExists1(p) ==
    /\ pc[p] = "createLock"
    /\ pc' = [pc EXCEPT ![p] = IF lock = NoLock THEN "lk_exists2" ELSE "lk_stat"]
    /\ UNCHANGED <<auxVars, args, lockVars, localVars, storeVars>>

\* ingest.ts:49-50  fs.statSync and the age test; statSync throws when the
\* file has gone, which leaves createLock through the outer catch.
LkStat(p) ==
    /\ pc[p] = "lk_stat"
    /\ IF lock = NoLock
       THEN /\ pc' = [pc EXCEPT ![p] = "finally"]
            /\ pending' = [pending EXCEPT ![p] = Failure(ErrENOENT)]
            /\ calm' = [calm EXCEPT ![p] = TRUE]
       ELSE /\ pc' = [pc EXCEPT ![p] =
                        IF tooOld(lock) THEN "lk_write" ELSE "lk_read"]
            /\ UNCHANGED <<pending, calm>>
    /\ UNCHANGED <<auxVars, args, lockVars, lstat, acquired, pipeVars, result, log, storeVars>>

\* ingest.ts:52  fs.readFileSync; a failure is caught at line 55 (stale).
LkRead(p) ==
    /\ pc[p] = "lk_read"
    /\ IF lock = NoLock
       THEN /\ pc' = [pc EXCEPT ![p] = "lk_write"]
            /\ lstat' = lstat
       ELSE /\ pc' = [pc EXCEPT ![p] = "lk_kill"]
            /\ lstat' = [lstat EXCEPT ![p] = lock.pid]
    /\ UNCHANGED <<auxVars, args, lockVars, acquired, calm, pipeVars, pending, result, log, storeVars>>

LkKill_m(p) ==
    /\ pc[p] = "lk_kill"
    /\ pc' = [pc EXCEPT ![p] = "lk_exists2"]
    /\ lstat' = [lstat EXCEPT ![p] = 0]
    /\ UNCHANGED <<auxVars, args, lockVars, acquired, calm, pipeVars, pending, result, log, storeVars>>

\* ingest.ts:53-57  process.kill(pid, 0) throws when pid is not running.
LkKill(p) ==
    /\ pc[p] = "lk_kill"
    /\ pc' = [pc EXCEPT ![p] = IF lstat[p] \in running THEN "lk_exists2" ELSE "lk_write"]
    /\ lstat' = [lstat EXCEPT ![p] = 0]
    /\ UNCHANGED <<auxVars, args, lockVars, acquired, calm, pipeVars, pending, result, log, storeVars>>

LkExists2_m(p) ==
    /\ pc[p] = "lk_exists2"
    /\ pc' = [pc EXCEPT ![p] = "lk_write"]
    /\ UNCHANGED <<auxVars, args, lockVars, lstat, acquired, calm, pipeVars, pending, result, log,
                   storeVars>>

\* ingest.ts:61-63  isLockStale() was false: second fs.existsSync, throw.
LkExists2(p) ==
    /\ pc[p] = "lk_exists2"
    /\ IF lock # NoLock
       THEN /\ pc' = [pc EXCEPT ![p] = "finally"]
            /\ pending' = [pending EXCEPT ![p] = Failure(ErrRunning)]
            /\ calm' = [calm EXCEPT ![p] = TRUE]
       ELSE /\ pc' = [pc EXCEPT ![p] = "lk_write"]
            /\ UNCHANGED <<pending, calm>>
    /\ UNCHANGED <<auxVars, args, lockVars, lstat, acquired, pipeVars, result, log, storeVars>>

\* ingest.ts:64  fs.writeFileSync(LOCK_FILE_PATH, pid)
LkWrite(p) ==
    /\ pc[p] = "lk_write"
    /\ lock' = [pid |-> p, age |-> 0]
    /\ acquired' = [acquired EXCEPT ![p] = TRUE]
    /\ calm' = [calmAfter(p, [pid |-> p, age |-> 0], running) EXCEPT ![p] = TRUE]
    /\ pc' = [pc EXCEPT ![p] = "extract"]
    /\ UNCHANGED <<auxVars, args, running, lstat, pipeVars, pending, result, log, storeVars>>

RmExists_m(p) ==
    /\ pc[p] = "finally"
    /\ pc' = [pc EXCEPT ![p] = "done"]
    /\ result' = [result EXCEPT ![p] = pending[p]]
    /\ UNCHANGED <<auxVars, args, lockVars, lstat, acquired, calm, pipeVars, pending, log, storeVars>>

\* ingest.ts:238-240 and 68  finally: removeLock, fs.existsSync
RmExists(p) ==
    /\ pc[p] = "finally"
    /\ IF lock = NoLock
       THEN /\ pc' = [pc EXCEPT ![p] = "done"]
            /\ result' = [result EXCEPT ![p] = pending[p]]
       ELSE /\ pc' = [pc EXCEPT ![p] = "unlink"]
            /\ result' = result
    /\ UNCHANGED <<auxVars, args, lockVars, lstat, acquired, calm, pipeVars, pending, log, storeVars>>

\* ingest.ts:68  fs.unlinkSync; it throws out of the finally block when
\* another process removed the file after the existsSync.
RmUnlink(p) ==
    /\ pc[p] = "unlink"
    /\ pc' = [pc EXCEPT ![p] = "done"]
    /\ result' = [result EXCEPT ![p] = IF lock = NoLock THEN Thrown ELSE pending[p]]
    /\ lock' = NoLock
    /\ calm' = calmAfter(p, NoLock, running)
    /\ UNCHANGED <<auxVars, args, running, lstat, acquired, pipeVars, pending, log, storeVars>>

\* ----------------------------------------------------------- pipeline
\* Array.from(new Set(s)): first occurrences, in order (ingest.ts:116).
uniq(s) ==
    LET F[i \in 0..Len(s)] ==
            IF i = 0 THEN <<>>
            ELSE IF \E j \in 1..Len(F[i - 1]) : F[i - 1][j] = s[i]
                 THEN F[i - 1] ELSE Append(F[i - 1], s[i])
    IN F[Len(s)]

mergeTags_m(manual, auto) == manual \o auto

\* ingest.ts:116  merge manual + auto tags
mergeTags(manual, auto) == uniq(manual \o auto)

\* The elements of s at the positions in S, in order.
pick(s, S) ==
    LET F[i \in 0..Len(s)] ==
            IF i = 0 THEN <<>>
            ELSE IF i \in S THEN Append(F[i - 1], s[i]) ELSE F[i - 1]
    IN F[Len(s)]

\* EmbeddedChunk (embedder.ts:26-31): the chunk and the vector of its text.
embed(c) == [chunk_index |-> c.chunk_index, content |-> c.content,
             embedding |-> <<"vec", c.content>>]

Logged(p, e) == log' = [log EXCEPT ![p] = Append(log[p], e)]

Extract_m(p) ==
    /\ pc[p] = "extract"
    /\ \/ /\ May("extract")
          /\ Logged(p, <<"ingestFromSource", "threw">>)
          /\ UNCHANGED extractedContent
       \/ /\ Logged(p, <<"ingestFromSource", "ok">>)
          /\ extractedContent' = [extractedContent EXCEPT ![p] = ingestFromSource(args[p].source)]
    /\ pc' = [pc EXCEPT ![p] = "getAllUniqueTags"]
    /\ UNCHANGED <<auxVars, args, lockVars, lstat, acquired, calm, classificationTags, finalTags,
                   embeddedChunks, ti, successfullyIngestedTargets, sourceId, insertedChunkIds,
                   pending, result, storeVars>>

\* ingest.ts:88-95  extraction, once for all targets
Extract(p) ==
    /\ pc[p] = "extract"
    /\ \/ /\ May("extract")
          /\ Logged(p, <<"ingestFromSource", "threw">>)
          /\ pending' = [pending EXCEPT ![p] = Failure(ErrExtraction)]
          /\ pc' = [pc EXCEPT ![p] = "finally"]
          /\ UNCHANGED extractedContent
       \/ /\ Logged(p, <<"ingestFromSource", "ok">>)
          /\ extractedContent' = [extractedContent EXCEPT ![p] = ingestFromSource(args[p].source)]
          /\ pc' = [pc EXCEPT ![p] = "getAllUniqueTags"]
          /\ UNCHANGED pending
    /\ UNCHANGED <<auxVars, args, lockVars, lstat, acquired, calm, classificationTags, finalTags,
                   embeddedChunks, ti, successfullyIngestedTargets, sourceId, insertedChunkIds,
                   result, storeVars>>

GetAllUniqueTags_m(p) ==
    /\ pc[p] = "getAllUniqueTags"
    /\ LET first == args[p].targetKeys[1] IN
       /\ Logged(p, <<"getAllUniqueTags", first>>)
       /\ IF first \in TARGETS /\ repoExists[first] /\ schema[first]
          THEN /\ pc' = [pc EXCEPT ![p] = "classify"]
               /\ UNCHANGED pending
          ELSE /\ pc' = [pc EXCEPT ![p] = "finally"]
               /\ pending' = [pending EXCEPT ![p] = Failure(ErrTags)]
    /\ UNCHANGED <<auxVars, args, lockVars, lstat, acquired, calm, pipeVars, result, storeVars>>

\* ingest.ts:99-100 and database.ts getAllUniqueTags: the reference target's
\* database is opened and "SELECT tags FROM sources" runs outside any inner
\* try; it throws when the directory is missing (the file cannot be opened)
\* or the table does not exist, and the outer catch makes that the result.
GetAllUniqueTags(p) ==
    /\ pc[p] = "getAllUniqueTags"
    /\ Logged(p, <<"getAllUniqueTags", refTarget>>)
    /\ IF repoExists[refTarget] /\ schema[refTarget]
       THEN /\ pc' = [pc EXCEPT ![p] = "classify"]
            /\ UNCHANGED pending
       ELSE /\ pc' = [pc EXCEPT ![p] = "finally"]
            /\ pending' = [pending EXCEPT ![p] = Failure(ErrTags)]
    /\ UNCHANGED <<auxVars, args, lockVars, lstat, acquired, calm, pipeVars, result, storeVars>>

Classify_m(p) ==
    /\ pc[p] = "classify"
    /\ \/ /\ May("classify")
          /\ Logged(p, <<"classifyContent", "threw">>)
          /\ pending' = [pending EXCEPT ![p] = Failure("Classification failed")]
          /\ pc' = [pc EXCEPT ![p] = "finally"]
          /\ UNCHANGED <<classificationTags, finalTags>>
       \/ \E c \in ClassifierOutputs :
          /\ Logged(p, <<"classifyContent", "ok">>)
          /\ classificationTags' = [classificationTags EXCEPT ![p] = c]
          /\ finalTags' = [finalTags EXCEPT ![p] = mergeTags(args[p].tags, c)]
          /\ pc' = [pc EXCEPT ![p] = "embed"]
          /\ UNCHANGED pending
    /\ UNCHANGED <<auxVars, args, lockVars, lstat, acquired, calm, extractedContent, embeddedChunks, ti,
                   successfullyIngestedTargets, sourceId, insertedChunkIds, result,
                   storeVars>>

\* ingest.ts:102-116 and classifier.ts:25-40: classifyContent answers or
\* throws; a throw leaves classificationTags empty.
Classify(p) ==
    /\ pc[p] = "classify"
    /\ \/ /\ May("classify")
          /\ Logged(p, <<"classifyContent", "threw">>)
          /\ UNCHANGED classificationTags
       \/ \E c \in ClassifierOutputs :
          /\ Logged(p, <<"classifyContent", "ok">>)
          /\ classificationTags' = [classificationTags EXCEPT ![p] = c]
    /\ finalTags' = [finalTags EXCEPT ![p] = mergeTags(args[p].tags, classificationTags'[p])]
    /\ pc' = [pc EXCEPT ![p] = "embed"]
    /\ UNCHANGED <<auxVars, args, lockVars, lstat, acquired, calm, extractedContent, embeddedChunks, ti,
                   successfullyIngestedTargets, sourceId, insertedChunkIds, pending, result,
                   storeVars>>

\* embedder.ts:85  chunks embedded per request
batchSize == 10

\* embedder.ts:87-88  the batch the i-th chunk (counted from 1) falls in
batchOf(i) == (i - 1) \div batchSize

\* embedder.ts:83-170  embedChunks: a batch whose providers all fail adds
\* nothing to the output (line 141), the others add their chunks in input
\* order (lines 158-162).  The positions that come out when the batches in
\* failed are the ones that fail:
embeddedPositions(n, failed) == {i \in 1..n : batchOf(i) \notin failed}

Embed_m(p) ==
    /\ pc[p] = "embed"
    /\ Logged(p, <<"embedChunks", "">>)
    /\ LET cs == chunksOfDocument(extractedContent[p]) IN
       \/ /\ May("embed")
          /\ pending' = [pending EXCEPT ![p] = Failure(ErrEmbedding)]
          /\ pc' = [pc EXCEPT ![p] = "finally"]
          /\ UNCHANGED <<embeddedChunks, ti, successfullyIngestedTargets>>
       \/ \E failed \in SUBSET {batchOf(i) : i \in 1..Len(cs)} :
          LET ecs == pick([i \in 1..Len(cs) |-> embed(cs[i])],
                          embeddedPositions(Len(cs), failed)) IN
          /\ May("embed") \/ failed = {}
          /\ embeddedChunks' = [embeddedChunks EXCEPT ![p] = ecs]
          /\ IF Len(ecs) < Len(cs)
             THEN /\ pending' = [pending EXCEPT ![p] = Failure(ErrNoChunks)]
                  /\ pc' = [pc EXCEPT ![p] = "finally"]
                  /\ UNCHANGED <<ti, successfullyIngestedTargets>>
             ELSE /\ pc' = [pc EXCEPT ![p] = "target"]
                  /\ ti' = [ti EXCEPT ![p] = 1]
                  /\ successfullyIngestedTargets' =
                        [successfullyIngestedTargets EXCEPT ![p] = <<>>]
                  /\ UNCHANGED pending
    /\ UNCHANGED <<auxVars, args, lockVars, lstat, acquired, calm, extractedContent, classificationTags,
                   finalTags, sourceId, insertedChunkIds, result, storeVars>>

\* ingest.ts:120-137  chunking and embedding, once for all targets.
\* embedChunks returns the embedded chunks in input order, without those of
\* the batches that failed, or throws.
Embed(p) ==
    /\ pc[p] = "embed"
    /\ Logged(p, <<"embedChunks", "">>)
    /\ LET cs == chunksOfDocument(extractedContent[p]) IN
       \/ /\ May("embed")
          /\ pending' = [pending EXCEPT ![p] = Failure(ErrEmbedding)]
          /\ pc' = [pc EXCEPT ![p] = "finally"]
          /\ UNCHANGED <<embeddedChunks, ti, successfullyIngestedTargets>>
       \/ \E failed \in SUBSET {batchOf(i) : i \in 1..Len(cs)} :
          LET ecs == pick([i \in 1..Len(cs) |-> embed(cs[i])],
                          embeddedPositions(Len(cs), failed)) IN
          /\ May("embed") \/ failed = {}
          /\ embeddedChunks' = [embeddedChunks EXCEPT ![p] = ecs]
          /\ IF Len(ecs) = 0
             THEN /\ pending' = [pending EXCEPT ![p] = Failure(ErrNoChunks)]
                  /\ pc' = [pc EXCEPT ![p] = "finally"]
                  /\ UNCHANGED <<ti, successfullyIngestedTargets>>
             ELSE /\ pc' = [pc EXCEPT ![p] = "target"]
                  /\ ti' = [ti EXCEPT ![p] = 1]
                  /\ successfullyIngestedTargets' =
                        [successfullyIngestedTargets EXCEPT ![p] = <<>>]
                  /\ UNCHANGED pending
    /\ UNCHANGED <<auxVars, args, lockVars, lstat, acquired, calm, extractedContent, classificationTags,
                   finalTags, sourceId, insertedChunkIds, result, storeVars>>

\* The target the loop is at.
cur(p) == args[p].targetKeys[ti[p]]

NextTarget_m(p) ==
    /\ ti' = [ti EXCEPT ![p] = ti[p] + 1]
    /\ pc' = [pc EXCEPT ![p] = "embed"]

\* "continue": on to the next target key.
NextTarget(p) ==
    /\ ti' = [ti EXCEPT ![p] = ti[p] + 1]
    /\ pc' = [pc EXCEPT ![p] = "target"]

\* ingest.ts:138-150 and 233: loop head.  Past the last key the result is
\* returned; an unknown key or a missing archive directory is skipped.
Target(p) ==
    /\ pc[p] = "target"
    /\ IF ti[p] > Len(args[p].targetKeys)
       THEN /\ pending' = [pending EXCEPT ![p] =
                    Payload(successfullyIngestedTargets[p], finalTags[p],
                            Len(embeddedChunks[p]))]
            /\ pc' = [pc EXCEPT ![p] = "finally"]
            /\ UNCHANGED ti
       ELSE /\ UNCHANGED pending
            /\ IF cur(p) \notin TARGETS \/ ~repoExists[cur(p)]
               THEN NextTarget(p)
               ELSE /\ pc' = [pc EXCEPT ![p] = "initializeSchema"]
                    /\ UNCHANGED ti
    /\ UNCHANGED <<auxVars, args, lockVars, lstat, acquired, calm, extractedContent, classificationTags,
                   finalTags, embeddedChunks, successfullyIngestedTargets, sourceId,
                   insertedChunkIds, result, log, storeVars>>

\* ------------------------------------------------------ metadata store
\* ingest.ts:152-153 with database.ts initializeSchema and getDbConnection:
\* the database file is opened and CREATE TABLE IF NOT EXISTS runs.  Both
\* calls stand outside the inner try blocks, so a rejection (the file cannot
\* be opened or is no database) reaches the outer catch.
InitializeSchema(p) ==
    /\ pc[p] = "initializeSchema"
    /\ \/ /\ May("schema")
          /\ pending' = [pending EXCEPT ![p] = Failure(ErrSchema)]
          /\ pc' = [pc EXCEPT ![p] = "finally"]
          /\ UNCHANGED schema
       \/ /\ schema' = [schema EXCEPT ![cur(p)] = TRUE]
          /\ pc' = [pc EXCEPT ![p] = "dedup"]
          /\ UNCHANGED pending
    /\ UNCHANGED <<auxVars, world, args, lockVars, lstat, acquired, calm, pipeVars, result, log,
                   repoExists, sources, chunks, seq, writer, txn, vectors, collections, archive>>

existingBySource_m(t, ec) ==
    \E r \in sources[t] : r.url = ec.source

\* SELECT id FROM sources WHERE normalized_url = ?  on the committed rows
existingBySource(t, ec) ==
    \E r \in sources[t] : r.normalized_url = ec.normalizedSource

Dedup_m(p) ==
    /\ pc[p] = "dedup"
    /\ IF existingBySource(cur(p), extractedContent[p])
       THEN /\ NextTarget(p)
            /\ UNCHANGED <<sourceId, insertedChunkIds, successfullyIngestedTargets>>
       ELSE /\ sourceId' = [sourceId EXCEPT ![p] = 0]
            /\ insertedChunkIds' = [insertedChunkIds EXCEPT ![p] = <<>>]
            /\ pc' = [pc EXCEPT ![p] = "begin"]
            /\ UNCHANGED <<ti, successfullyIngestedTargets>>
    /\ UNCHANGED <<auxVars, args, lockVars, lstat, acquired, calm, extractedContent, classificationTags,
                   finalTags, embeddedChunks, pending, result, log, storeVars>>

\* ingest.ts:155-163  dedup pre-check
Dedup(p) ==
    /\ pc[p] = "dedup"
    /\ IF existingBySource(cur(p), extractedContent[p])
       THEN /\ successfullyIngestedTargets' =
                  [successfullyIngestedTargets EXCEPT ![p] = Append(@, cur(p))]
            /\ Logged(p, <<"skip", cur(p)>>)
            /\ NextTarget(p)
            /\ UNCHANGED <<sourceId, insertedChunkIds>>
       ELSE /\ sourceId' = [sourceId EXCEPT ![p] = 0]
            /\ insertedChunkIds' = [insertedChunkIds EXCEPT ![p] = <<>>]
            /\ pc' = [pc EXCEPT ![p] = "begin"]
            /\ UNCHANGED <<ti, successfullyIngestedTargets, log>>
    /\ UNCHANGED <<auxVars, args, lockVars, lstat, acquired, calm, extractedContent, classificationTags,
                   finalTags, embeddedChunks, pending, result, storeVars>>

\* A statement of connection p on target t runs inside p's open
\* transaction, or on its own (autocommit) when p has none.
inTxn(p, t) == txn[p].target = t

Begin_m(p) ==
    /\ pc[p] = "begin"
    /\ pc' = [pc EXCEPT ![p] = "insertSource"]
    /\ UNCHANGED <<auxVars, world, args, lockVars, localVars, repoExists, schema, sources, chunks, seq,
                   writer, txn, vectors, collections, archive>>

\* ingest.ts:166  BEGIN TRANSACTION (deferred: no database lock yet)
Begin(p) ==
    /\ pc[p] = "begin"
    /\ txn' = [txn EXCEPT ![p] = [target |-> cur(p), src |-> <<>>, chunks |-> <<>>]]
    /\ pc' = [pc EXCEPT ![p] = "insertSource"]
    /\ UNCHANGED <<auxVars, world, args, lockVars, localVars, repoExists, schema, sources, chunks, seq,
                   writer, vectors, collections, archive>>

violatesUnique_m(t, ec) ==
    \E r \in sources[t] : r.url = ec.source

\* The UNIQUE constraints of table sources (database.ts: url,
\* normalized_url, content_hash).
violatesUnique(t, ec) ==
    \E r \in sources[t] : \/ r.url = ec.source
                          \/ r.normalized_url = ec.normalizedSource
                          \/ r.content_hash = ec.contentHash

\* JSON.stringify of a string array (ingest.ts:169): the text of the
\* array, which JSON.parse reads back (database.ts getAllUniqueTags).
JSONstringify(tags) == <<"[", tags, "]">>

JSONparse(text) == text[2]

\* The row INSERT INTO sources writes (ingest.ts:167-170).
sourceRow(id, ec, tags) ==
    [id |-> id, url |-> ec.source, normalized_url |-> ec.normalizedSource,
     content_hash |-> ec.contentHash, tags |-> JSONstringify(tags)]

\* ingest.ts:167-172  INSERT INTO sources.  The statement fails when
\* another connection holds the write lock (SQLITE_BUSY), when a UNIQUE
\* constraint is violated, or for a reason of the store's own.
InsertSource(p) ==
    /\ pc[p] = "insertSource"
    /\ LET t == cur(p)
           id == seq[t].sources + 1 IN
       \/ /\ \/ May("db")
             \/ writer[t] \notin {0, p}
             \/ violatesUnique(t, extractedContent[p])
          /\ pc' = [pc EXCEPT ![p] = "rollback"]
          /\ UNCHANGED <<txn, writer, sourceId>>
          /\ UNCHANGED <<sources, seq>>
       \/ /\ writer[t] \in {0, p}
          /\ ~violatesUnique(t, extractedContent[p])
          /\ LET row == sourceRow(id, extractedContent[p], finalTags[p]) IN
             IF inTxn(p, t)
             THEN /\ txn' = [txn EXCEPT ![p].src = <<row>>]
                  /\ writer' = [writer EXCEPT ![t] = p]
                  /\ UNCHANGED <<sources, seq>>
             ELSE /\ sources' = [sources EXCEPT ![t] = @ \cup {row}]
                  /\ seq' = [seq EXCEPT ![t].sources = id]
                  /\ UNCHANGED <<txn, writer>>
          /\ sourceId' = [sourceId EXCEPT ![p] = id]
          /\ pc' = [pc EXCEPT ![p] = "insertChunk"]
    /\ UNCHANGED <<auxVars, args, lockVars, lstat, acquired, calm, extractedContent, classificationTags,
                   finalTags, embeddedChunks, ti, successfullyIngestedTargets, insertedChunkIds,
                   pending, result, log, world, repoExists, schema, chunks, vectors, collections, archive>>

\* The row INSERT INTO chunks writes (ingest.ts:174-176).
chunkRow(id, sid, c) ==
    [id |-> id, source_id |-> sid, chunk_index |-> c.chunk_index, content |-> c.content]

\* ingest.ts:175-178  one INSERT INTO chunks per embedded chunk
InsertChunk(p) ==
    /\ pc[p] = "insertChunk"
    /\ LET t == cur(p)
           k == Len(insertedChunkIds[p]) + 1
           id == seq[t].chunks + Len(txn[p].chunks) + 1
           row == chunkRow(id, sourceId[p], embeddedChunks[p][k]) IN
       \/ /\ May("db")
          /\ pc' = [pc EXCEPT ![p] = "rollback"]
          /\ UNCHANGED <<txn, insertedChunkIds, chunks, seq>>
       \/ /\ IF inTxn(p, t)
             THEN /\ txn' = [txn EXCEPT ![p].chunks = Append(@, row)]
                  /\ UNCHANGED <<chunks, seq>>
             ELSE /\ chunks' = [chunks EXCEPT ![t] = @ \cup {row}]
                  /\ seq' = [seq EXCEPT ![t].chunks = id]
                  /\ UNCHANGED txn
          /\ insertedChunkIds' = [insertedChunkIds EXCEPT ![p] = Append(@, id)]
          /\ pc' = [pc EXCEPT ![p] =
                        IF k = Len(embeddedChunks[p]) THEN "commit" ELSE "insertChunk"]
    /\ UNCHANGED <<auxVars, args, lockVars, lstat, acquired, calm, extractedContent, classificationTags,
                   finalTags, embeddedChunks, ti, successfullyIngestedTargets, sourceId,
                   pending, result, log, world, repoExists, schema, sources, writer, vectors, collections,
                   archive>>

Range(s) == {s[i] : i \in 1..Len(s)}

Commit_m(p) ==
    /\ pc[p] = "commit"
    /\ LET t == cur(p) IN
       \/ /\ May("db")
          /\ pc' = [pc EXCEPT ![p] = "addChunksToVectorStore"]
          /\ writer' = [writer EXCEPT ![t] = 0]
          /\ txn' = [txn EXCEPT ![p] = NoTxn]
          /\ UNCHANGED <<sources, chunks, seq, log>>
       \/ /\ sources' = [sources EXCEPT ![t] = @ \cup Range(txn[p].src)]
          /\ chunks' = [chunks EXCEPT ![t] = @ \cup Range(txn[p].chunks)]
          /\ seq' = [seq EXCEPT ![t] = [sources |-> @.sources + Len(txn[p].src),
                                        chunks |-> @.chunks + Len(txn[p].chunks)]]
          /\ writer' = [writer EXCEPT ![t] = 0]
          /\ txn' = [txn EXCEPT ![p] = NoTxn]
          /\ Logged(p, <<"COMMIT", t>>)
          /\ pc' = [pc EXCEPT ![p] = "addChunksToVectorStore"]
    /\ UNCHANGED <<auxVars, world, args, lockVars, lstat, acquired, calm, pipeVars, pending, result,
                   repoExists, schema, vectors, collections, archive>>

\* ingest.ts:179-181  COMMIT: the rows of the transaction become durable.
Commit(p) ==
    /\ pc[p] = "commit"
    /\ LET t == cur(p) IN
       \/ /\ May("db")
          /\ pc' = [pc EXCEPT ![p] = "rollback"]
          /\ UNCHANGED <<sources, chunks, seq, writer, txn, log>>
       \/ /\ sources' = [sources EXCEPT ![t] = @ \cup Range(txn[p].src)]
          /\ chunks' = [chunks EXCEPT ![t] = @ \cup Range(txn[p].chunks)]
          /\ seq' = [seq EXCEPT ![t] = [sources |-> @.sources + Len(txn[p].src),
                                        chunks |-> @.chunks + Len(txn[p].chunks)]]
          /\ writer' = [writer EXCEPT ![t] = 0]
          /\ txn' = [txn EXCEPT ![p] = NoTxn]
          /\ Logged(p, <<"COMMIT", t>>)
          /\ pc' = [pc EXCEPT ![p] = "addChunksToVectorStore"]
    /\ UNCHANGED <<auxVars, world, args, lockVars, lstat, acquired, calm, pipeVars, pending, result,
                   repoExists, schema, vectors, collections, archive>>

\* ingest.ts:182-186  ROLLBACK; continue
Rollback(p) ==
    /\ pc[p] = "rollback"
    /\ txn' = [txn EXCEPT ![p] = NoTxn]
    /\ writer' = [writer EXCEPT ![cur(p)] = IF @ = p THEN 0 ELSE @]
    /\ Logged(p, <<"ROLLBACK", cur(p)>>)
    /\ NextTarget(p)
    /\ UNCHANGED <<auxVars, args, lockVars, lstat, acquired, calm, extractedContent, classificationTags,
                   finalTags, embeddedChunks, successfullyIngestedTargets, sourceId,
                   insertedChunkIds, pending, result, world, repoExists, schema, sources,
                   chunks, seq, vectors, collections, archive>>

\* -------------------------------------------------------- vector index
\* vector-store.ts:52  the record id
vectorId(sid, cid) == <<"chunk", sid, cid>>

\* Array.prototype.join(',') (vector-store.ts:58): the pieces of the string,
\* the elements with a comma between neighbours.
join(s) ==
    LET F[i \in 0..Len(s)] ==
            IF i = 0 THEN <<>>
            ELSE IF i = 1 THEN <<s[1]>>
            ELSE F[i - 1] \o <<",", s[i]>>
    IN F[Len(s)]

\* vector-store.ts:67-71  coll.add: a record whose id is already in the
\* collection is ignored, the collection keeps the record it has.
collAdd(existing, records) ==
    existing \cup {r \in records : \A v \in existing : v.id # r.id}

\* vector-store.ts:52-59 with ingest.ts:189-197: the record of the i-th
\* embedded chunk; tags are flattened with join(',').
vectorRecord(p, i) ==
    [id |-> vectorId(sourceId[p], insertedChunkIds[p][i]),
     source_id |-> sourceId[p],
     content |-> embeddedChunks[p][i].content,
     url |-> extractedContent[p].source,
     tags |-> join(finalTags[p]),
     embedding |-> embeddedChunks[p][i].embedding]

AddChunksToVectorStore_m(p) ==
    /\ pc[p] = "addChunksToVectorStore"
    /\ \/ /\ May("vector")
          /\ pending' = [pending EXCEPT ![p] = Failure("Vector store failed")]
          /\ pc' = [pc EXCEPT ![p] = "finally"]
          /\ collections' \in {collections, collections \cup {collectionName(cur(p))}}
          /\ UNCHANGED <<vectors, log, ti>>
       \/ /\ vectors' = [vectors EXCEPT ![collectionName(cur(p))] =
                            collAdd(@, {vectorRecord(p, i) : i \in 1..Len(embeddedChunks[p])})]
          /\ collections' = collections \cup {collectionName(cur(p))}
          /\ Logged(p, <<"coll.add", cur(p)>>)
          /\ pc' = [pc EXCEPT ![p] = "archive"]
          /\ UNCHANGED <<ti, pending>>
    /\ UNCHANGED <<auxVars, args, lockVars, lstat, acquired, calm, extractedContent, classificationTags,
                   finalTags, embeddedChunks, successfullyIngestedTargets, sourceId,
                   insertedChunkIds, result, world, repoExists, dbVars, archive>>

\* ingest.ts:188-203  addChunksToVectorStore; on failure the committed
\* rows stay and the loop continues with the next target.
AddChunksToVectorStore(p) ==
    /\ pc[p] = "addChunksToVectorStore"
    /\ \/ /\ May("vector")
          /\ NextTarget(p)
          /\ collections' \in {collections, collections \cup {collectionName(cur(p))}}
          /\ UNCHANGED <<vectors, log>>
       \/ /\ vectors' = [vectors EXCEPT ![collectionName(cur(p))] =
                            collAdd(@, {vectorRecord(p, i) : i \in 1..Len(embeddedChunks[p])})]
          /\ collections' = collections \cup {collectionName(cur(p))}
          /\ Logged(p, <<"coll.add", cur(p)>>)
          /\ pc' = [pc EXCEPT ![p] = "archive"]
          /\ UNCHANGED ti
    /\ UNCHANGED <<auxVars, args, lockVars, lstat, acquired, calm, extractedContent, classificationTags,
                   finalTags, embeddedChunks, successfullyIngestedTargets, sourceId,
                   insertedChunkIds, pending, result, world, repoExists, dbVars, archive>>

Archive_m(p) ==
    /\ pc[p] = "archive"
    /\ \/ /\ May("archive")
          /\ vectors' = [vectors EXCEPT ![collectionName(cur(p))] =
                            {v \in @ : v.source_id # sourceId[p]}]
          /\ UNCHANGED <<archive, successfullyIngestedTargets, log>>
       \/ /\ archive' = [archive EXCEPT ![cur(p)] = @ \cup {sourceId[p]}]
          /\ successfullyIngestedTargets' =
                [successfullyIngestedTargets EXCEPT ![p] = Append(@, cur(p))]
          /\ Logged(p, <<"archive", cur(p)>>)
          /\ UNCHANGED vectors
    /\ NextTarget(p)
    /\ UNCHANGED <<auxVars, args, lockVars, lstat, acquired, calm, extractedContent, classificationTags,
                   finalTags, embeddedChunks, sourceId, insertedChunkIds, pending, result,
                   world, repoExists, dbVars, collections>>

\* ingest.ts:205-231  archive the original; the target counts as
\* successful only when the file was written.
Archive(p) ==
    /\ pc[p] = "archive"
    /\ \/ /\ May("archive")
          /\ UNCHANGED <<archive, successfullyIngestedTargets, log>>
       \/ /\ archive' = [archive EXCEPT ![cur(p)] = @ \cup {sourceId[p]}]
          /\ successfullyIngestedTargets' =
                [successfullyIngestedTargets EXCEPT ![p] = Append(@, cur(p))]
          /\ Logged(p, <<"archive", cur(p)>>)
    /\ NextTarget(p)
    /\ UNCHANGED <<auxVars, args, lockVars, lstat, acquired, calm, extractedContent, classificationTags,
                   finalTags, embeddedChunks, sourceId, insertedChunkIds, pending, result,
                   world, repoExists, dbVars, vectors, collections>>

\* --------------------------------------------------------- query engine
\* cli.ts:76-86  what the query command hands to answerQuery.
Questions == {"", "q"}
TagFilters == {<<>>, <<"x">>, <<"z", "y">>}

\* llm-provider.ts:135-237  the embedding providers in priority order.
Providers == <<"gemini", "openai", "minimax", "openrouter">>

\* config.ts:9-36  the provider keys an installation may have configured
\* (at least one).
Configs == {{"gemini"}, {"gemini", "openai"}, {"openai", "openrouter"}, {"minimax"}}

\* Distances ChromaDB may report, and how many hits are looked at.
Distances == {1, 3}
MaxHits == 3

\* QueryResult, classifier.ts:150-160.
ErrNoQuery == "A query is required."
ErrEmbedQuery == "Failed to embed query: All Embedding providers failed."
ErrGenerate == "Failed to generate answer: All LLM providers failed."
NoContextAnswer == "No relevant context found in the knowledge base."

NoQResult == [status |-> "none", success |-> FALSE, error |-> "", answer |-> "",
              sources |-> <<>>]
QFailure(e) == [status |-> "returned", success |-> FALSE, error |-> e, answer |-> "",
                sources |-> <<>>]
QSuccess(a, s) == [status |-> "returned", success |-> TRUE, error |-> "", answer |-> a,
                   sources |-> s]
\* An exception that leaves answerQuery; main().catch reports it (cli.ts:110-113).
QThrown == [status |-> "thrown", success |-> FALSE, error |-> "ChromaDB", answer |-> "",
            sources |-> <<>>]

\* No query command is running.
NoQuery == [pc |-> "idle", keys |-> {}, query |-> "", tags |-> <<>>, target |-> "",
            queryVector |-> <<>>, searchResults |-> <<>>, sources |-> <<>>,
            context |-> <<>>, calls |-> <<>>, result |-> NoQResult]

\* llm-provider.ts:135-240  getEmbeddings: each provider whose key is in
\* keys is called in priority order until one of them answers (the ones in
\* up do); when none does the function throws.
getEmbeddings(texts, keys, up) ==
    LET F[i \in 1..(Len(Providers) + 1)] ==
            IF i > Len(Providers) THEN [threw |-> TRUE, calls |-> <<>>, embeddings |-> <<>>]
            ELSE IF Providers[i] \notin keys THEN F[i + 1]
            ELSE IF Providers[i] \in up
                 THEN [threw |-> FALSE, calls |-> <<Providers[i]>>,
                       embeddings |-> [k \in 1..Len(texts) |-> <<"vec", texts[k]>>]]
                 ELSE [F[i + 1] EXCEPT !.calls = <<Providers[i]>> \o @]
    IN F[1]

\* classifier.ts:187-189 with vector-store.ts:58: every tag of the filter
\* is contained in the record's flattened tag string.
matchesFilter(v, tags) == \A k \in 1..Len(tags) : \E j \in 1..Len(v.tags) : v.tags[j] = tags[k]

\* vector-store.ts:78-82  coll.query: what ChromaDB may answer, each record
\* that passes the filter at most once, with its distance to the query.
queryResults(records, tags) ==
    LET M == {v \in records : matchesFilter(v, tags)} IN
    UNION {{h \in [1..n -> [metadata : M, distance : Distances]] :
                \A i, j \in 1..n : i # j => h[i].metadata # h[j].metadata} :
           n \in 0..MaxHits}

replaces_m(old, new) == old.distance < new.distance

\* classifier.ts:207  a later hit of the same locator replaces the kept
\* one only when it is strictly closer.
replaces(old, new) == old.distance > new.distance

\* classifier.ts:202-211  the Map from locator to its closest hit; a Map
\* lists its values in the order the keys were first set.
bestChunksPerSource(h) ==
    LET F[i \in 0..Len(h)] ==
            IF i = 0 THEN <<>>
            ELSE LET m == F[i - 1]
                     at == {k \in 1..Len(m) : m[k].metadata.url = h[i].metadata.url}
                 IN IF h[i].metadata.url = "" THEN m
                    ELSE IF at = {} THEN Append(m, h[i])
                    ELSE LET k == CHOOSE k \in at : TRUE IN
                         IF replaces(m[k], h[i]) THEN [m EXCEPT ![k] = h[i]] ELSE m
    IN F[Len(h)]

\* classifier.ts:213-214  Array.prototype.sort with (a, b) => a.distance -
\* b.distance: ascending, entries of equal distance keep their order.
sortByDistance(s) ==
    LET ins(t, e) ==
            LET k == Cardinality({j \in 1..Len(t) : t[j].distance <= e.distance}) IN
            SubSeq(t, 1, k) \o <<e>> \o SubSeq(t, k + 1, Len(t))
        F[i \in 0..Len(s)] == IF i = 0 THEN <<>> ELSE ins(F[i - 1], s[i])
    IN F[Len(s)]

\* classifier.ts:216-221  the sources of the answer.
sourcesOf(h) ==
    LET f == sortByDistance(bestChunksPerSource(h)) IN
    [i \in 1..Len(f) |-> [url |-> f[i].metadata.url, content |-> f[i].metadata.content,
                          distance |-> f[i].distance]]

\* classifier.ts:224-226  the numbered context, one entry per source.
contextOf(srcs) ==
    [i \in 1..Len(srcs) |-> <<"Source", i, "URL", srcs[i].url, srcs[i].content>>]

QCalled(f) == Append(aq.calls, f)

noHits_m(h) == FALSE

\* classifier.ts:196  metadatas.length === 0
noHits(h) == Len(h) = 0

\* cli.ts:76-86 and classifier.ts:164-168  the query command starts; a
\* question is required.
QStart ==
    /\ aq.pc = "idle"
    /\ running = {}
    /\ \E q \in Questions, tg \in TagFilters, t \in TARGETS, ks \in Configs :
        aq' = IF q = ""
              THEN [aq EXCEPT !.pc = "done", !.keys = ks, !.query = q, !.tags = tg,
                              !.target = t, !.result = QFailure(ErrNoQuery)]
              ELSE [aq EXCEPT !.pc = "getEmbeddings", !.keys = ks, !.query = q, !.tags = tg,
                              !.target = t]
    /\ UNCHANGED <<ck, eb, pc, args, lockVars, localVars, storeVars>>

QGetEmbeddings_m ==
    /\ aq.pc = "getEmbeddings"
    /\ \E up \in SUBSET {Providers[i] : i \in 1..Len(Providers)} :
        LET r == getEmbeddings(<<aq.query>>, aq.keys, up) IN
        aq' = IF r.threw
              THEN [aq EXCEPT !.pc = "queryVectorStore", !.calls = @ \o r.calls]
              ELSE [aq EXCEPT !.pc = "queryVectorStore", !.calls = @ \o r.calls,
                              !.queryVector = r.embeddings[1]]
    /\ UNCHANGED <<ck, eb, pc, args, lockVars, localVars, storeVars>>

\* classifier.ts:172-181  embed the question; a failure is returned.
QGetEmbeddings ==
    /\ aq.pc = "getEmbeddings"
    /\ \E up \in SUBSET {Providers[i] : i \in 1..Len(Providers)} :
        LET r == getEmbeddings(<<aq.query>>, aq.keys, up) IN
        aq' = IF r.threw
              THEN [aq EXCEPT !.pc = "done", !.calls = @ \o r.calls,
                              !.result = QFailure(ErrEmbedQuery)]
              ELSE [aq EXCEPT !.pc = "queryVectorStore", !.calls = @ \o r.calls,
                              !.queryVector = r.embeddings[1]]
    /\ UNCHANGED <<ck, eb, pc, args, lockVars, localVars, storeVars>>

queryCollectionName_m(target) == "pablo_kb"

\* classifier.ts:185  const collectionName = `${target}_kb`
queryCollectionName(target) == target \o "_kb"

\* classifier.ts:183-226 with vector-store.ts:14-39 and 76-84: search the
\* target's collection.  getOrCreateCollection creates the collection when
\* it does not exist; the call is outside every try, so what it throws
\* leaves answerQuery.  No hit is a successful answer; otherwise the hits
\* are reduced to one per locator, sorted, and numbered into the context.
QQueryVectorStore ==
    /\ aq.pc = "queryVectorStore"
    /\ LET c == queryCollectionName(aq.target)
           records == IF c \in DOMAIN vectors THEN vectors[c] ELSE {} IN
       \/ /\ aq' = [aq EXCEPT !.pc = "done", !.calls = QCalled("queryVectorStore"),
                              !.result = QThrown]
          /\ collections' \in {collections, collections \cup {c}}
       \/ /\ collections' = collections \cup {c}
          /\ \E h \in queryResults(records, aq.tags) :
                aq' = IF noHits(h)
                      THEN [aq EXCEPT !.pc = "done", !.calls = QCalled("queryVectorStore"),
                                      !.searchResults = h,
                                      !.result = QSuccess(NoContextAnswer, <<>>)]
                      ELSE [aq EXCEPT !.pc = "generateText",
                                      !.calls = QCalled("queryVectorStore"),
                                      !.searchResults = h,
                                      !.sources = sourcesOf(h),
                                      !.context = contextOf(sourcesOf(h))]
    /\ UNCHANGED <<ck, eb, pc, args, lockVars, localVars, world, repoExists, dbVars, vectors,
                   archive>>

\* classifier.ts:240-246  the completion; its failure is returned.
QGenerateText ==
    /\ aq.pc = "generateText"
    /\ \/ aq' = [aq EXCEPT !.pc = "done", !.calls = QCalled("generateText"),
                           !.result = QSuccess("answer", aq.sources)]
       \/ aq' = [aq EXCEPT !.pc = "done", !.calls = QCalled("generateText"),
                           !.result = QFailure(ErrGenerate)]
    /\ UNCHANGED <<ck, eb, pc, args, lockVars, localVars, storeVars>>

\* cli.ts:101  process.exit after answerQuery returned.
QExit ==
    /\ aq.pc = "done"
    /\ aq' = NoQuery
    /\ UNCHANGED <<ck, eb, pc, args, lockVars, localVars, storeVars>>

\* ------------------------------------------------------------- chunker
\* embedder.ts:35-37
chunkSize == 800
chunkOverlap == 200
minChunkSize == 100

\* Texts are sequences of characters.  The k-th sentence of an input is a
\* run of the k-th letter closed by a full stop; the sentences are joined by
\* a separator of white space.
MaxSentences == 3
SentenceLengths == {40, 300, 700, 900}
Separators == {<<" ">>, <<"\n", "\n">>}
Letters == <<"a", "b", "c", "d", "e">>

sentenceText(k, n) == [i \in 1..n |-> IF i = n THEN "." ELSE Letters[k]]

textOf(lens, sep) ==
    LET F[k \in 0..Len(lens)] ==
            IF k = 0 THEN <<>>
            ELSE IF k = 1 THEN sentenceText(1, lens[1])
            ELSE F[k - 1] \o sep \o sentenceText(k, lens[k])
    IN F[Len(lens)]

ChunkInputs == UNION {[1..n -> SentenceLengths] : n \in 0..MaxSentences}

\* No chunkContent call is under study.
NoChunking == [pc |-> "idle", lens |-> <<>>, sep |-> <<>>, content |-> <<>>,
               closed |-> 0, trailing |-> <<>>, chunks |-> <<>>, of |-> 0, again |-> <<>>]

\* The character classes of the regular expression at embedder.ts:39.
isSpace(c) == c \in {" ", "\n"}
isStop(c) == c \in {".", "!", "?"}

\* embedder.ts:39  content.split(/(?<=[.!?])\s+/): the text is cut at every
\* run of white space that follows a '.', '!' or '?'; the run is dropped.
\* A text without such a run, the empty text too, is one piece.
split(content) ==
    LET n == Len(content)
        starts == {i \in 2..n : isSpace(content[i]) /\ isStop(content[i - 1])}
        end(i) == CHOOSE j \in i..n : /\ \A k \in i..j : isSpace(content[k])
                                      /\ j = n \/ ~isSpace(content[j + 1])
        m == Cardinality(starts)
        st(k) == CHOOSE i \in starts : Cardinality({j \in starts : j < i}) = k - 1
        from(k) == IF k = 1 THEN 1 ELSE end(st(k - 1)) + 1
        to(k) == IF k = m + 1 THEN n ELSE st(k) - 1
    IN [k \in 1..(m + 1) |-> SubSeq(content, from(k), to(k))]

overlapIndex_m(currentChunk) == Len(currentChunk)

\* embedder.ts:49  Math.max(0, currentChunk.length - chunkOverlap)
overlapIndex(currentChunk) ==
    IF Len(currentChunk) - chunkOverlap > 0 THEN Len(currentChunk) - chunkOverlap ELSE 0

substring_m(s, from) == <<>>

\* String.prototype.substring(from): the characters after the first from.
substring(s, from) == SubSeq(s, from + 1, Len(s))

\* embedder.ts:39-52  the loop of chunkContent: the chunks closed and the
\* buffer left when the sentences are used up.  chunkIndex is the number of
\* chunks pushed so far.
accumulate(content) ==
    LET sentences == split(content)
        F[i \in 0..Len(sentences)] ==
            IF i = 0 THEN [chunks |-> <<>>, currentChunk |-> <<>>]
            ELSE LET done == F[i - 1].chunks
                     currentChunk == F[i - 1].currentChunk
                     sentence == sentences[i]
                 IN IF Len(currentChunk) + Len(sentence) <= chunkSize
                    THEN [chunks |-> done,
                          currentChunk |-> currentChunk
                                \o (IF currentChunk # <<>> THEN <<" ">> ELSE <<>>) \o sentence]
                    ELSE [chunks |-> Append(done, [content |-> currentChunk,
                                                     chunk_index |-> Len(done)]),
                          currentChunk |-> substring(currentChunk, overlapIndex(currentChunk))
                                \o <<" ">> \o sentence]
    IN F[Len(sentences)]

\* embedder.ts:34-63  chunkContent: the loop, then the trailing buffer is
\* merged into the last chunk or pushed as a chunk of its own.
chunkContent(content) ==
    LET r == accumulate(content)
        done == r.chunks
        currentChunk == r.currentChunk
    IN IF currentChunk = <<>> THEN done
       ELSE IF Len(currentChunk) < minChunkSize /\ Len(done) > 0
            THEN [done EXCEPT ![Len(done)].content = @ \o <<" ">> \o currentChunk]
            ELSE Append(done, [content |-> currentChunk, chunk_index |-> Len(done)])

\* ingest.ts:122  chunkContent is applied to a text; closed and trailing
\* keep what its loop left: the number of chunks closed and the buffer.
CStart ==
    /\ ck.pc = "idle"
    /\ \E lens \in ChunkInputs, sep \in Separators :
        ck' = [pc |-> "chunked", lens |-> lens, sep |-> sep, content |-> textOf(lens, sep),
               closed |-> Len(accumulate(textOf(lens, sep)).chunks),
               trailing |-> accumulate(textOf(lens, sep)).currentChunk,
               chunks |-> chunkContent(textOf(lens, sep)), of |-> 0, again |-> <<>>]
    /\ UNCHANGED <<aq, eb, pc, args, lockVars, localVars, storeVars>>

\* chunkContent is applied to the text of one of the chunks it returned.
CAgain ==
    /\ ck.pc = "chunked"
    /\ \E k \in 1..Len(ck.chunks) :
        ck' = [ck EXCEPT !.pc = "rechunked", !.of = k,
                         !.again = chunkContent(ck.chunks[k].content)]
    /\ UNCHANGED <<aq, eb, pc, args, lockVars, localVars, storeVars>>

\* ------------------------------------------------------------ embedder
\* The chunk lists handed to embedChunks, by their texts: none, one, two
\* with the same text, one more than a batch, a list whose eleventh text is
\* also its first, the same with a twelfth new text, and twelve chunks over
\* three texts.
EmbedInputs == {<<>>, <<1>>, <<2, 2>>,
                [i \in 1..11 |-> i],
                [i \in 1..11 |-> IF i = 11 THEN 1 ELSE i],
                [i \in 1..12 |-> IF i = 11 THEN 1 ELSE i],
                [i \in 1..12 |-> (i % 3) + 1]}

\* Chunk (embedder.ts:21-24) with the indices chunkContent gives.
chunksOf(texts) == [i \in 1..Len(texts) |-> [content |-> texts[i], chunk_index |-> i - 1]]

\* What a provider returns for a list of texts, one vector per text.
vectorsOf(texts) == [k \in 1..Len(texts) |-> <<"vec", texts[k]>>]

\* No embedChunks call is running; the LRU cache of the process is empty.
NoEmbedding == [pc |-> "idle", google |-> FALSE, openai |-> FALSE, chunks |-> <<>>, i |-> 0, cache |-> <<>>,
                embeddedChunks |-> <<>>, calls |-> <<>>, failed |-> {}, hits |-> 0]

\* embedder.ts:88  the batch that starts after position i
batchChunks(cs, i) == SubSeq(cs, i + 1, IF i + batchSize < Len(cs) THEN i + batchSize ELSE Len(cs))

\* embedder.ts:96-110  the positions of the batch whose text is not cached
originalIndices(b, cache) ==
    pick([j \in 1..Len(b) |-> j], {j \in 1..Len(b) : b[j].content \notin DOMAIN cache})

\* embedder.ts:117-139  what the providers can do with the uncached texts:
\* the primary answers at attempt 1, 2 or 3 (with all vectors, or with too
\* few), or fails three times; then the fallback, when configured, answers
\* or fails.  The primary client is built and called whether or not
\* GOOGLE_API_KEY is set (embedder.ts:12, 120); without the key its calls
\* are rejected.  calls lists the provider calls and the waits between them.
ProviderOutcomes(texts, googleConfigured, openaiConfigured) ==
    LET tries(n) == IF n = 1 THEN <<"google">>
                    ELSE IF n = 2 THEN <<"google", "wait 1000", "google">>
                    ELSE <<"google", "wait 1000", "google", "wait 2000", "google">>
    IN (IF googleConfigured
        THEN {[embeddings |-> vectorsOf(texts), null |-> FALSE, provider |-> "google",
               calls |-> tries(n)] : n \in 1..3}
             \cup {[embeddings |-> SubSeq(vectorsOf(texts), 1, Len(texts) - 1), null |-> FALSE,
                    provider |-> "google", calls |-> tries(1)]}
        ELSE {})
       \cup (IF openaiConfigured
             THEN {[embeddings |-> vectorsOf(texts), null |-> FALSE, provider |-> "openai",
                    calls |-> tries(3) \o <<"openai">>],
                   [embeddings |-> <<>>, null |-> TRUE, provider |-> "openai",
                    calls |-> tries(3) \o <<"openai">>]}
             ELSE {[embeddings |-> <<>>, null |-> TRUE, provider |-> "google",
                    calls |-> tries(3)]})

originalIndexOf_m(oi, idx) == idx

\* embedder.ts:142  const originalIndex = originalIndices[idx]
originalIndexOf(oi, idx) == oi[idx]

\* embedder.ts:92-110 and 141-153  cachedResults: the cached entries of the
\* batch, then (when the result has one vector per uncached text) the new
\* ones; r is the providers' outcome, not looked at when nothing is uncached.
cachedResults(b, cache, r) ==
    LET oi == originalIndices(b, cache)
        ok == Len(oi) > 0 /\ ~r.null /\ Len(r.embeddings) = Len(oi)
        set == IF ok THEN {originalIndexOf(oi, idx) : idx \in 1..Len(oi)} ELSE {}
        hit == {j \in 1..Len(b) : b[j].content \in DOMAIN cache}
        last(j) == CHOOSE idx \in 1..Len(oi) :
                      /\ originalIndexOf(oi, idx) = j
                      /\ \A k \in 1..Len(oi) : originalIndexOf(oi, k) = j => k <= idx
    IN [j \in hit \cup set |->
          IF j \in set
          THEN [content |-> b[j].content, chunk_index |-> b[j].chunk_index,
                embedding |-> r.embeddings[last(j)], embedding_provider |-> r.provider]
          ELSE [content |-> b[j].content, chunk_index |-> b[j].chunk_index,
                embedding |-> cache[b[j].content], embedding_provider |-> "google"]]

\* embedder.ts:144  cache.set for each new vector
cacheAfter(b, cache, r) ==
    LET oi == originalIndices(b, cache)
        ok == Len(oi) > 0 /\ ~r.null /\ Len(r.embeddings) = Len(oi)
        new == IF ok THEN {b[originalIndexOf(oi, idx)].content : idx \in 1..Len(oi)} ELSE {}
    IN [t \in DOMAIN cache \cup new |->
          IF t \in new
          THEN r.embeddings[CHOOSE idx \in 1..Len(oi) :
                               /\ b[originalIndexOf(oi, idx)].content = t
                               /\ \A k \in 1..Len(oi) :
                                    b[originalIndexOf(oi, k)].content = t => k <= idx]
          ELSE cache[t]]

\* embedder.ts:9-13 and 83-85  embedChunks is called in a process with or
\* without GOOGLE_API_KEY and OPENAI_API_KEY (config.ts:32-36 accepts any
\* one of four keys); the cache is the process's.
EStart ==
    /\ eb.pc = "idle"
    /\ \E texts \in EmbedInputs, g, o \in BOOLEAN :
        eb' = [eb EXCEPT !.pc = IF Len(texts) = 0 THEN "done" ELSE "batch",
                         !.google = g, !.openai = o, !.chunks = chunksOf(texts), !.i = 0,
                         !.embeddedChunks = <<>>, !.calls = <<>>, !.failed = {}, !.hits = 0]
    /\ UNCHANGED <<aq, ck, pc, args, lockVars, localVars, storeVars>>

\* embedder.ts:87-166  one batch: look up the cache, embed what is not
\* cached, and push the batch's results in the order of the batch.
EBatch ==
    /\ eb.pc = "batch"
    /\ LET b == batchChunks(eb.chunks, eb.i)
           oi == originalIndices(b, eb.cache)
           contentToEmbed == [k \in 1..Len(oi) |-> b[oi[k]].content]
       IN \E r \in ProviderOutcomes(contentToEmbed, eb.google, eb.openai) :
            LET cr == cachedResults(b, eb.cache, r)
                called == IF Len(oi) > 0 THEN r.calls ELSE <<>>
                lost == Len(oi) > 0 /\ (r.null \/ Len(r.embeddings) # Len(oi))
            IN eb' = [eb EXCEPT
                        !.pc = IF eb.i + batchSize < Len(eb.chunks) THEN "batch" ELSE "done",
                        !.i = eb.i + batchSize,
                        !.cache = cacheAfter(b, eb.cache, r),
                        !.embeddedChunks =
                            @ \o pick([j \in 1..Len(b) |-> IF j \in DOMAIN cr THEN cr[j] ELSE b[j]],
                                      DOMAIN cr),
                        !.calls = @ \o called,
                        !.failed = IF lost THEN @ \cup {batchOf(eb.i + 1)} ELSE @,
                        !.hits = @ + (Len(b) - Len(oi))]
    /\ UNCHANGED <<aq, ck, pc, args, lockVars, localVars, storeVars>>

\* embedder.ts:169  return embeddedChunks; the cache stays with the process.
EReturn ==
    /\ eb.pc = "done"
    /\ eb' = [NoEmbedding EXCEPT !.cache = eb.cache]
    /\ UNCHANGED <<aq, ck, pc, args, lockVars, localVars, storeVars>>

\* ---------------------------------------------------------- environment
\* The state of a process slot with no process in it.
Reset(p) ==
    /\ pc' = [pc EXCEPT ![p] = "idle"]
    /\ args' = [args EXCEPT ![p] = NoArgs]
    /\ running' = running \ {p}
    /\ lstat' = [lstat EXCEPT ![p] = 0]
    /\ acquired' = [acquired EXCEPT ![p] = FALSE]
    /\ calm' = [calmAfter(p, lock, running \ {p}) EXCEPT ![p] = TRUE]
    /\ extractedContent' = [extractedContent EXCEPT ![p] = NoContent]
    /\ classificationTags' = [classificationTags EXCEPT ![p] = <<>>]
    /\ finalTags' = [finalTags EXCEPT ![p] = <<>>]
    /\ embeddedChunks' = [embeddedChunks EXCEPT ![p] = <<>>]
    /\ ti' = [ti EXCEPT ![p] = 0]
    /\ successfullyIngestedTargets' = [successfullyIngestedTargets EXCEPT ![p] = <<>>]
    /\ sourceId' = [sourceId EXCEPT ![p] = 0]
    /\ insertedChunkIds' = [insertedChunkIds EXCEPT ![p] = <<>>]
    /\ pending' = [pending EXCEPT ![p] = NoResult]
    /\ result' = [result EXCEPT ![p] = NoResult]
    /\ log' = [log EXCEPT ![p] = <<>>]
    \* closing the connection discards an open transaction
    /\ txn' = [txn EXCEPT ![p] = NoTxn]
    /\ writer' = [t \in TARGETS |-> IF writer[t] = p THEN 0 ELSE writer[t]]

\* cli.ts:56  process.exit after ingestSource returned
Exit(p) ==
    /\ pc[p] = "done"
    /\ Reset(p)
    /\ UNCHANGED <<auxVars, world, lock, repoExists, schema, sources, chunks, seq, vectors, collections, archive>>

\* The process is killed in the middle of the call: nothing of finally runs.
Crash(p) ==
    /\ May("crash")
    /\ pc[p] \notin {"idle", "done"}
    /\ Reset(p)
    /\ UNCHANGED <<auxVars, world, lock, repoExists, schema, sources, chunks, seq, vectors, collections, archive>>

\* DATA_MODEL.md:67  a database reset: the operator deletes a target's
\* knowledge_base.db while no command runs.  Rows, tables and the
\* AUTOINCREMENT counters are gone; ChromaDB and the archive are not touched.
ResetStore(t) ==
    /\ May("reset")
    /\ running = {}
    /\ sources[t] # {}
    /\ schema' = [schema EXCEPT ![t] = FALSE]
    /\ sources' = [sources EXCEPT ![t] = {}]
    /\ chunks' = [chunks EXCEPT ![t] = {}]
    /\ seq' = [seq EXCEPT ![t] = [sources |-> 0, chunks |-> 0]]
    /\ UNCHANGED <<auxVars, pc, args, lockVars, localVars, world, repoExists, writer, txn,
                   vectors, collections, archive>>

\* One tick passes: the lock file is one tick older.
Tick ==
    /\ lock # NoLock
    /\ lock.age < MaxTicks
    /\ lock' = [lock EXCEPT !.age = @ + 1]
    /\ calm' = calmAfter(0, lock', running)
    /\ UNCHANGED <<auxVars, pc, args, running, lstat, acquired, pipeVars, pending, result, log,
                   storeVars>>

\* ------------------------------------------------------- specification
\* No process is running and the stores are empty.  The archive directories
\* are the installation's; the reference database has its tables from an
\* earlier run unless the environment is a fresh one.
Idle ==
    /\ pc = [p \in Pids |-> "idle"]
    /\ args = [p \in Pids |-> NoArgs]
    /\ lock = NoLock
    /\ running = {}
    /\ lstat = [p \in Pids |-> 0]
    /\ acquired = [p \in Pids |-> FALSE]
    /\ calm = [p \in Pids |-> TRUE]
    /\ extractedContent = [p \in Pids |-> NoContent]
    /\ classificationTags = [p \in Pids |-> <<>>]
    /\ finalTags = [p \in Pids |-> <<>>]
    /\ embeddedChunks = [p \in Pids |-> <<>>]
    /\ ti = [p \in Pids |-> 0]
    /\ successfullyIngestedTargets = [p \in Pids |-> <<>>]
    /\ sourceId = [p \in Pids |-> 0]
    /\ insertedChunkIds = [p \in Pids |-> <<>>]
    /\ pending = [p \in Pids |-> NoResult]
    /\ result = [p \in Pids |-> NoResult]
    /\ log = [p \in Pids |-> <<>>]
    /\ repoExists = [t \in TARGETS |-> t \notin world.missing]
    /\ schema = [t \in TARGETS |-> t = refTarget /\ repoExists[t] /\ ~world.fresh]
    /\ sources = [t \in TARGETS |-> {}]
    /\ chunks = [t \in TARGETS |-> {}]
    /\ seq = [t \in TARGETS |-> [sources |-> 0, chunks |-> 0]]
    /\ writer = [t \in TARGETS |-> 0]
    /\ txn = [p \in Pids |-> NoTxn]
    /\ vectors = [c \in {collectionName(t) : t \in TARGETS} |-> {}]
    /\ archive = [t \in TARGETS |-> {}]
    /\ collections = {}
    /\ aq = NoQuery
    /\ ck = NoChunking
    /\ eb = NoEmbedding

Init ==
    /\ world \in Worlds
    /\ Idle

\* One step of the program in process p.
Proceed(p) ==
    \/ LkExists1(p)
    \/ LkStat(p)
    \/ LkRead(p)
    \/ LkKill(p)
    \/ LkExists2(p)
    \/ LkWrite(p)
    \/ Extract(p)
    \/ GetAllUniqueTags(p)
    \/ Classify(p)
    \/ Embed(p)
    \/ Target(p)
    \/ InitializeSchema(p)
    \/ Dedup(p)
    \/ Begin(p)
    \/ InsertSource(p)
    \/ InsertChunk(p)
    \/ Commit(p)
    \/ Rollback(p)
    \/ AddChunksToVectorStore(p)
    \/ Archive(p)
    \/ RmExists(p)
    \/ RmUnlink(p)
    \/ Exit(p)

Next ==
    \/ \E p \in Pids : Start(p)
    \/ \E p \in Pids : Proceed(p)
    \/ \E p \in Pids : Crash(p)
    \/ \E t \in TARGETS : ResetStore(t)
    \/ Tick

Spec == Init /\ [][Next]_vars

\* Liveness of lock reclaim.  A process was killed right after it wrote the
\* lock file (a state Spec reaches by LkWrite and Crash); from then on no
\* process is killed, every live process keeps running (the event loop
\* resumes every pending call) and the operator keeps making attempts.
OrphanLock == [pid |-> 1, age |-> 0]

InitLive ==
    /\ world \in {w \in Worlds : "crash" \in w.faults}
    /\ pc = [p \in Pids |-> "idle"]
    /\ args = [p \in Pids |-> NoArgs]
    /\ lock = OrphanLock
    /\ running = {}
    /\ lstat = [p \in Pids |-> 0]
    /\ acquired = [p \in Pids |-> FALSE]
    /\ calm = [p \in Pids |-> TRUE]
    /\ extractedContent = [p \in Pids |-> NoContent]
    /\ classificationTags = [p \in Pids |-> <<>>]
    /\ finalTags = [p \in Pids |-> <<>>]
    /\ embeddedChunks = [p \in Pids |-> <<>>]
    /\ ti = [p \in Pids |-> 0]
    /\ successfullyIngestedTargets = [p \in Pids |-> <<>>]
    /\ sourceId = [p \in Pids |-> 0]
    /\ insertedChunkIds = [p \in Pids |-> <<>>]
    /\ pending = [p \in Pids |-> NoResult]
    /\ result = [p \in Pids |-> NoResult]
    /\ log = [p \in Pids |-> <<>>]
    /\ repoExists = [t \in TARGETS |-> t \notin world.missing]
    /\ schema = [t \in TARGETS |-> t = refTarget /\ repoExists[t] /\ ~world.fresh]
    /\ sources = [t \in TARGETS |-> {}]
    /\ chunks = [t \in TARGETS |-> {}]
    /\ seq = [t \in TARGETS |-> [sources |-> 0, chunks |-> 0]]
    /\ writer = [t \in TARGETS |-> 0]
    /\ txn = [p \in Pids |-> NoTxn]
    /\ vectors = [c \in {collectionName(t) : t \in TARGETS} |-> {}]
    /\ archive = [t \in TARGETS |-> {}]
    /\ collections = {}
    /\ aq = NoQuery
    /\ ck = NoChunking
    /\ eb = NoEmbedding

\* An attempt: a call that gets as far as createLock.
Attempt(p) == Start(p) /\ pc'[p] = "createLock"

NextLive ==
    \/ \E p \in Pids : Start(p)
    \/ \E p \in Pids : Proceed(p)
    \/ Tick

LiveSpec ==
    /\ InitLive
    /\ [][NextLive]_vars
    /\ \A p \in Pids : WF_vars(Proceed(p))
    /\ \A p \in Pids : SF_vars(Attempt(p))

\* The query command next to ingestion, in an installation where nothing
\* fails and the operator issues one command at a time: a query starts
\* when no ingestion process is alive and no ingestion starts while a query
\* is running.  The steps of ingestSource that only a fault or a second
\* live process enables are left out.
QueryWorlds == {World({CallOne, CallThree}, {}, 1, {}, FALSE)}

QueryInit ==
    /\ world \in QueryWorlds
    /\ Idle

Ingest(p) ==
    \/ aq.pc = "idle" /\ Start(p)
    \/ LkExists1(p)
    \/ LkExists2(p)
    \/ LkWrite(p)
    \/ Extract(p)
    \/ GetAllUniqueTags(p)
    \/ Classify(p)
    \/ Embed(p)
    \/ Target(p)
    \/ InitializeSchema(p)
    \/ Dedup(p)
    \/ Begin(p)
    \/ InsertSource(p)
    \/ InsertChunk(p)
    \/ Commit(p)
    \/ AddChunksToVectorStore(p)
    \/ Archive(p)
    \/ RmExists(p)
    \/ RmUnlink(p)
    \/ Exit(p)

QueryNext ==
    \/ \E p \in Pids : Ingest(p)
    \/ QStart
    \/ QGetEmbeddings
    \/ QQueryVectorStore
    \/ QGenerateText
    \/ QExit

QuerySpec == QueryInit /\ [][QueryNext]_vars

\* embedChunks on its own, called again and again in one process, so that
\* later calls find the texts of earlier ones in the cache.
EmbedNext ==
    \/ EStart
    \/ EBatch
    \/ EReturn

EmbedSpec == QueryInit /\ [][EmbedNext]_vars

\* chunkContent on its own, on the input texts and on its own output.
ChunkNext ==
    \/ CStart
    \/ CAgain

ChunkSpec == QueryInit /\ [][ChunkNext]_vars

\* ================================================================ claims
ToSet(s) == {s[i] : i \in 1..Len(s)}

\* Positions between a successful createLock and removeLock.
PipelinePhase == {"extract", "getAllUniqueTags", "classify", "embed", "target",
                  "initializeSchema", "dedup", "begin", "insertSource", "insertChunk",
                  "commit", "rollback", "addChunksToVectorStore", "archive"}

\* Process p ends its createLock with this step (and is not killed in it).
LeavesCreateLock(p) ==
    pc[p] \in LockPhase /\ pc'[p] \notin LockPhase \cup {"idle"}

\* Process p returns from ingestSource with this step.
Returns(p) == pc[p] # "done" /\ pc'[p] = "done"

\* The staleness rule as the specification words it: older than fifteen
\* minutes, or the recorded process is not running.
SpecStale == lock.age * TickMs > 15 * 60 * 1000 \/ lock.pid \notin running

\* C1: at most one ingestion is ever past lock acquisition: no two calls
\* are both between a successful createLock and their removeLock.
C1_AtMostOneIngestion ==
    \A p, q \in Pids :
        p # q => ~(acquired[p] /\ pc[p] \in PipelinePhase /\
                   acquired[q] /\ pc[q] \in PipelinePhase)

\* C2: a call that finds a lock file that exists and is not stale fails
\* fast: its createLock ends in the 'already running' failure, nothing is
\* retried, and the call has called no collaborator, written no store and
\* holds no transaction, up to its return.
C2_FailFast ==
    /\ [][\A p \in Pids :
            (LeavesCreateLock(p) /\ calm[p] /\ lock # NoLock /\ ~SpecStale)
                => /\ pc'[p] = "finally"
                   /\ pending'[p] = Failure(ErrRunning)
                   /\ ~acquired'[p]]_vars
    /\ [](\A p \in Pids :
            pending[p] = Failure(ErrRunning)
                => /\ pc[p] \in {"finally", "unlink", "done"}
                   /\ log[p] = <<>>
                   /\ txn[p] = NoTxn
                   /\ (pc[p] = "done" /\ result[p].status = "returned"
                          => result[p] = Failure(ErrRunning)))

\* A call has failed fast on a live holder's fresh lock and returned.
C2_Witness ==
    \E p, q \in Pids :
        /\ p # q
        /\ pc[p] = "done" /\ result[p] = Failure(ErrRunning)
        /\ acquired[q] /\ pc[q] \in PipelinePhase

\* C3: createLock succeeds exactly when no lock file exists or the existing
\* one is stale (older than 15 minutes whatever pid it records, or recorded
\* by a process that is not running whatever its age).
C3_AcquireIffFreeOrStale ==
    [][\A p \in Pids :
        (LeavesCreateLock(p) /\ calm[p])
            => (acquired'[p] <=> (lock = NoLock \/ SpecStale))]_vars

\* createLock has found a lock stale that is too old although the process it
\* records is still running, and goes on to write its own.
C3_Witness ==
    \E p \in Pids :
        /\ pc[p] = "lk_write" /\ calm[p]
        /\ lock # NoLock /\ lock.pid \in running /\ lock.pid # p
        /\ lock.age * TickMs > 15 * 60 * 1000

\* C4: on every exit path of a call that acquired the lock, the lock file
\* is gone when ingestSource returns.
C4_LockReleasedOnReturn ==
    [][\A p \in Pids : (Returns(p) /\ acquired[p]) => lock' = NoLock]_vars

\* A call that acquired the lock ended by a thrown fault (the tag read)
\* and the lock file is gone.
C4_Witness ==
    \E p \in Pids :
        /\ pc[p] = "done" /\ acquired[p] /\ result[p] = Failure(ErrTags)
        /\ lock = NoLock

\* C5: an orphaned or outdated lock never blocks ingestion forever: an
\* attempt that finds the lock file stale acquires it, and under fair
\* scheduling of attempts some attempt does acquire the lock.
C5_StaleLockReclaimed ==
    /\ (lock # NoLock /\ SpecStale) ~> (\E p \in Pids : acquired[p])
    /\ [][\A p \in Pids :
            (LeavesCreateLock(p) /\ calm[p] /\ lock # NoLock /\ SpecStale)
                => acquired'[p]]_vars

\* A process has taken over the lock left by the killed process 1.
C5_Witness ==
    \E p \in Pids :
        /\ acquired[p] /\ pc[p] = "extract"
        /\ lock = [pid |-> p, age |-> 0] /\ p # 1
        /\ 1 \notin running

Moves(p) == pc'[p] # pc[p]

ExtractThrew(p) ==
    \E i \in 1..Len(log[p]) : log[p][i] = <<"ingestFromSource", "threw">>

\* C6: when the extractor fails, the call returns success=false with the
\* extraction error, calls neither classifier nor embedder, writes no
\* row, vector or archive file, and releases the lock.
C6_ExtractionFailureAborts ==
    /\ [](\A p \in Pids :
            ExtractThrew(p)
                => /\ log[p] = << <<"ingestFromSource", "threw">> >>
                   /\ pc[p] \in {"finally", "unlink", "done"}
                   /\ pending[p] = Failure(ErrExtraction)
                   /\ txn[p] = NoTxn
                   /\ (pc[p] = "done" => result[p] = Failure(ErrExtraction)))
    /\ [][\A p \in Pids :
            (ExtractThrew(p) /\ Moves(p))
                => /\ UNCHANGED <<sources, chunks, vectors, archive>>
                   /\ (Returns(p) => lock' = NoLock)]_vars

\* A call whose extraction failed has returned and the lock is gone.
C6_Witness ==
    \E p \in Pids :
        /\ pc[p] = "done" /\ ExtractThrew(p)
        /\ result[p] = Failure(ErrExtraction)
        /\ lock = NoLock

ClassifyThrew(p) ==
    \E i \in 1..Len(log[p]) : log[p][i] = <<"classifyContent", "threw">>

Called(p, f) == \E i \in 1..Len(log[p]) : log[p][i][1] = f

\* C7: a classification failure never fails the ingestion: the run goes on
\* to chunking and embedding and the target loop, and the final tag set is
\* exactly the manual tags.
C7_ClassificationFailureNonFatal ==
    /\ [][\A p \in Pids :
            (pc[p] = "classify" /\ Moves(p) /\ ClassifyThrew(p)')
                => /\ pc'[p] = "embed"
                   /\ pending'[p] = NoResult
                   /\ ToSet(finalTags'[p]) = ToSet(args[p].tags)]_vars
    /\ [](\A p \in Pids :
            (ClassifyThrew(p) /\ pc[p] = "done" /\ result[p].status = "returned")
                => /\ Called(p, "embedChunks")
                   /\ result[p].error \in {"", ErrEmbedding, ErrNoChunks}
                   /\ (result[p].error = ""
                          => ToSet(result[p].tags) = ToSet(args[p].tags)))

\* A call whose classification failed returned success with the manual tags
\* after writing a target.
C7_Witness ==
    \E p \in Pids :
        /\ pc[p] = "done" /\ ClassifyThrew(p)
        /\ result[p].success /\ result[p].tags = <<"x", "y">>
        /\ Called(p, "COMMIT")

NoDup(s) == \A i, j \in 1..Len(s) : s[i] = s[j] => i = j

\* The tag sequence tg is the union of p's manual and classifier tags,
\* duplicates collapsed.
TagsAreUnion(p, tg) ==
    /\ ToSet(tg) = ToSet(args[p].tags) \cup ToSet(classificationTags[p])
    /\ NoDup(tg)

\* The flat tag string of a vector record: the tags of tg, comma-separated.
FlatTags(tg) ==
    LET F[i \in 0..Len(tg)] ==
            IF i = 0 THEN <<>>
            ELSE IF i = 1 THEN <<tg[1]>>
            ELSE Append(Append(F[i - 1], ","), tg[i])
    IN F[Len(tg)]

\* The duplicate-free listings of the union of p's manual and classifier tags.
UnionListings(p) ==
    LET U == ToSet(args[p].tags) \cup ToSet(classificationTags[p]) IN
    {tg \in [1..Cardinality(U) -> U] : TagsAreUnion(p, tg)}

\* C8: the tags stored with the Source in every written target, attached
\* (as a flat comma-separated string) to every vector record and reported
\* in the result are the set union of the manual and the classifier tags,
\* duplicates collapsed.
C8_TagsAreSetUnion ==
    [][\A p \in Pids :
        /\ (pc[p] = "commit" /\ Moves(p))
              => \A r \in sources'[cur(p)] \ sources[cur(p)] :
                    TagsAreUnion(p, JSONparse(r.tags))
        /\ (pc[p] = "addChunksToVectorStore" /\ Moves(p))
              => \A v \in vectors'[collectionName(cur(p))] \ vectors[collectionName(cur(p))] :
                    \E tg \in UnionListings(p) : v.tags = FlatTags(tg)
        /\ (Returns(p) /\ result'[p].status = "returned" /\ result'[p].error = "")
              => TagsAreUnion(p, result'[p].tags)]_vars

\* Manual tags x, y and classifier tags y, z: x, y, z in the row of both
\* targets, in a vector record and in the result.
C8_Witness ==
    \E p \in Pids :
        /\ pc[p] = "done" /\ args[p].tags = <<"x", "y">>
        /\ classificationTags[p] = <<"y", "z">>
        /\ result[p].tags = <<"x", "y", "z">>
        /\ Called(p, "COMMIT")
        /\ \A t \in {"pablo", "reels"} :
              /\ \E r \in sources[t] : JSONparse(r.tags) = <<"x", "y", "z">>
              /\ \E v \in vectors[collectionName(t)] :
                    v.tags = <<"x", ",", "y", ",", "z">>

\* The normalized locator of p's document is stored in target t.
LocatorStored(p, t) ==
    \E r \in sources[t] : r.normalized_url = extractedContent[p].normalizedSource

\* C9: deduplication is idempotent per target: a target that already
\* stores the normalized locator is left as it is (no new source, chunk
\* row, vector record or file), keeps exactly one Source for the locator,
\* and is reported as successful.
C9_DedupIdempotent ==
    /\ [][\A p \in Pids :
            (pc[p] = "dedup" /\ Moves(p) /\ pc'[p] # "idle" /\ LocatorStored(p, cur(p)))
                => /\ UNCHANGED <<sources, chunks, seq, vectors, archive>>
                   /\ pc'[p] = "target"
                   /\ successfullyIngestedTargets'[p] =
                         Append(successfullyIngestedTargets[p], cur(p))]_vars
    /\ [](\A t \in TARGETS : \A r1, r2 \in sources[t] :
            r1.normalized_url = r2.normalized_url => r1 = r2)
    /\ [](\A p \in Pids :
            (pc[p] = "done" /\ result[p].status = "returned" /\ result[p].error = "")
                => result[p].targets = successfullyIngestedTargets[p])

\* The second ingestion of a locator (under another spelling) wrote nothing
\* and reports both targets, each of which holds one Source.
C9_Witness ==
    \E p \in Pids :
        /\ pc[p] = "done" /\ args[p] = CallFrag
        /\ result[p].success /\ result[p].targets = <<"reels", "pablo">>
        /\ ~Called(p, "COMMIT") /\ ~Called(p, "coll.add")
        /\ \A t \in {"pablo", "reels"} :
              Cardinality({r \in sources[t] : r.normalized_url = "n1"}) = 1

\* C10: the metadata write of one source and its chunks is all-or-nothing:
\* after a rollback no Source row and no Chunk row of the attempt is in the
\* target; after a commit the Source row and every chunk row are.
C10_MetadataWriteAtomic ==
    [][\A p \in Pids :
        /\ (pc[p] = "rollback" /\ pc'[p] = "target")
              => /\ ~\E r \in sources'[cur(p)] : r.id = sourceId[p]
                 /\ ~\E c \in chunks'[cur(p)] : c.source_id = sourceId[p]
                 /\ txn'[p] = NoTxn
        /\ (pc[p] = "commit" /\ pc'[p] = "addChunksToVectorStore")
              => /\ \E r \in sources'[cur(p)] :
                        /\ r.id = sourceId[p]
                        /\ r.normalized_url = extractedContent[p].normalizedSource
                 /\ \A i \in 1..Len(embeddedChunks[p]) :
                        \E c \in chunks'[cur(p)] :
                            /\ c.id = insertedChunkIds[p][i]
                            /\ c.source_id = sourceId[p]
                            /\ c.chunk_index = embeddedChunks[p][i].chunk_index
                            /\ c.content = embeddedChunks[p][i].content]_vars

\* The chunk half of a write failed after the source insert and a chunk
\* insert had succeeded; after the rollback the target holds no row.
C10_Witness ==
    \E p \in Pids :
        /\ pc[p] = "target" /\ Called(p, "ROLLBACK")
        /\ sourceId[p] > 0 /\ Len(insertedChunkIds[p]) = 1
        /\ Len(embeddedChunks[p]) = 2
        /\ \A t \in TARGETS : sources[t] = {} /\ chunks[t] = {}

\* The call of p has entered the per-target loop.
InTargetPhase(p) == ti[p] > 0

\* C11: no error while processing one requested target keeps the other
\* requested targets from being processed: a call that entered the target
\* loop and returned has visited every requested target and reports the
\* targets that succeeded.
C11_TargetErrorsIsolated ==
    \A p \in Pids :
        (pc[p] = "done" /\ result[p].status = "returned" /\ InTargetPhase(p))
            => /\ ti[p] = Len(args[p].targetKeys) + 1
               /\ result[p].error = ""
               /\ result[p].targets = successfullyIngestedTargets[p]

\* Target t holds the document of p in full: the Source row, a chunk row,
\* a vector record and the archive file.
FullyWritten(p, t) ==
    \E r \in sources[t] :
        /\ r.normalized_url = extractedContent[p].normalizedSource
        /\ \E c \in chunks[t] : c.source_id = r.id
        /\ \E v \in vectors[collectionName(t)] : v.source_id = r.id
        /\ r.id \in archive[t]

\* Nothing has ever been written to target t.
Untouched(t) ==
    /\ sources[t] = {} /\ chunks[t] = {}
    /\ vectors[collectionName(t)] = {} /\ archive[t] = {}

\* C12: with two requested targets of which one has no archive directory
\* (and nothing else going wrong), the call skips that target and writes
\* nothing to it, writes the other in full, and returns success=true with
\* only the valid target, in either order of the two.
C12_MissingDirectorySkipped ==
    \A p \in Pids : \A m, v \in TARGETS :
        (/\ pc[p] = "done" /\ world.faults = {}
         /\ args[p].targetKeys \in {<<m, v>>, <<v, m>>}
         /\ ~repoExists[m] /\ repoExists[v])
            => /\ result[p].success
               /\ result[p].targets = <<v>>
               /\ Untouched(m)
               /\ FullyWritten(p, v)

\* The call of p has made the step e.
Did(p, e) == \E i \in 1..Len(log[p]) : log[p][i] = e

\* In the call of p target t was found to hold the locator already, or its
\* metadata transaction committed and its vector records were added.
Succeeded(p, t) ==
    \/ Did(p, <<"skip", t>>)
    \/ Did(p, <<"COMMIT", t>>) /\ Did(p, <<"coll.add", t>>)

\* C13: for a call that reached the per-target phase, success is true
\* exactly when at least one requested target succeeded (was dedup-skipped
\* or written), and the reported targets are exactly those that succeeded.
C13_SuccessIffSomeTarget ==
    \A p \in Pids :
        (pc[p] = "done" /\ result[p].status = "returned" /\ InTargetPhase(p))
            => LET S == {t \in ToSet(args[p].targetKeys) : Succeeded(p, t)} IN
               /\ result[p].success <=> S # {}
               /\ ToSet(result[p].targets) = S

\* C19: a target whose metadata write and vector write both succeeded is
\* reported as successful (and counts toward overall success) even when
\* writing its archive file failed.
C19_ArchiveFailureStillSuccess ==
    \A p \in Pids : \A t \in TARGETS :
        (/\ pc[p] = "done" /\ result[p].status = "returned" /\ result[p].error = ""
         /\ Did(p, <<"COMMIT", t>>) /\ Did(p, <<"coll.add", t>>))
            => /\ result[p].success
               /\ t \in ToSet(result[p].targets)

\* Target t stores a Source with the normalized locator or the content hash
\* of p's document.
Clashes(p, t) ==
    \E r \in sources[t] :
        \/ r.normalized_url = extractedContent[p].normalizedSource
        \/ r.content_hash = extractedContent[p].contentHash

\* C14: in every target no two Sources share a normalized locator and no
\* two share a content hash, and the store rejects an insert that would
\* break this even when the dedup pre-check let the ingestion through.
C14_StoreEnforcesUniqueness ==
    /\ [](\A t \in TARGETS : \A r1, r2 \in sources[t] :
            (\/ r1.normalized_url = r2.normalized_url
             \/ r1.content_hash = r2.content_hash) => r1 = r2)
    /\ [][\A p \in Pids :
            (pc[p] = "insertSource" /\ Moves(p) /\ pc'[p] # "idle" /\ Clashes(p, cur(p)))
                => /\ pc'[p] = "rollback"
                   /\ sources' = sources
                   /\ txn'[p].src = <<>>
                   /\ sourceId'[p] = 0]_vars

\* Two ingestions of one locator both passed the pre-check; one committed,
\* and the store has rejected the insert of the other.
C14_Witness ==
    \E p \in Pids :
        /\ pc[p] = "rollback" /\ sourceId[p] = 0
        /\ writer[cur(p)] = 0
        /\ LocatorStored(p, cur(p))

\* Target t stores the text of p's document under another normalized locator.
HashStoredElsewhere(p, t) ==
    \E r \in sources[t] :
        /\ r.content_hash = extractedContent[p].contentHash
        /\ r.normalized_url # extractedContent[p].normalizedSource

\* C15: a document whose content hash is already stored in a target under a
\* different normalized locator is a duplicate, not an error: the call
\* does not report that target as failed.
C15_HashDuplicateNotFailure ==
    \A p \in Pids : \A t \in TARGETS :
        (/\ pc[p] = "done" /\ result[p].status = "returned" /\ result[p].error = ""
         /\ t \in ToSet(args[p].targetKeys)
         /\ HashStoredElsewhere(p, t))
            => t \in ToSet(result[p].targets)

\* The rows of the metadata write p has just committed are in target t.
RowsStored(p, t) ==
    /\ \E r \in sources[t] : r.id = sourceId[p]
    /\ \A i \in 1..Len(insertedChunkIds[p]) :
          \E c \in chunks[t] : c.id = insertedChunkIds[p][i] /\ c.source_id = sourceId[p]

\* C16: when the Vector Index write of a target fails after its metadata
\* transaction committed, the committed Source and Chunk rows stay (nothing
\* is rolled back) and the call goes on to the next requested target.
C16_VectorFailureKeepsRows ==
    [][\A p \in Pids :
        (/\ pc[p] = "addChunksToVectorStore" /\ Moves(p) /\ pc'[p] # "idle"
         /\ log'[p] = log[p])
            => /\ RowsStored(p, cur(p))
               /\ UNCHANGED <<sources, chunks>>
               /\ pending'[p] = NoResult
               /\ pc'[p] = "target" /\ ti'[p] = ti[p] + 1]_vars

\* The vector write failed on pablo; its rows are there without vectors,
\* and the call went on to write reels.
C16_Witness ==
    \E p \in Pids :
        /\ pc[p] = "done" /\ args[p] = CallTwo
        /\ Did(p, <<"COMMIT", "pablo">>) /\ ~Did(p, <<"coll.add", "pablo">>)
        /\ sources["pablo"] # {} /\ chunks["pablo"] # {} /\ vectors["pablo_kb"] = {}
        /\ Did(p, <<"COMMIT", "reels">>) /\ Did(p, <<"coll.add", "reels">>)

\* The Sources of target t that have no vector record and whose vector
\* write is not pending: the write failed, or never ran.
WithoutVectors(t) ==
    {r \in sources[t] :
        /\ \A v \in vectors[collectionName(t)] : v.source_id # r.id
        /\ ~\E p \in Pids : /\ pc[p] = "addChunksToVectorStore"
                            /\ cur(p) = t /\ sourceId[p] = r.id}

VectorsStored(p, t) ==
    \A i \in 1..Len(insertedChunkIds[p]) :
        \E v \in vectors[collectionName(t)] :
            v.id = vectorId(sourceId[p], insertedChunkIds[p][i])

\* C18: an archival failure on a target unwinds nothing: the target's
\* committed Source and Chunk rows and its vector records remain, and no
\* other target's state changes.
C18_ArchiveFailureUnwindsNothing ==
    [][\A p \in Pids :
        (/\ pc[p] = "archive" /\ Moves(p) /\ pc'[p] # "idle"
         /\ archive' = archive)
            => /\ UNCHANGED <<sources, chunks, seq, vectors>>
               /\ RowsStored(p, cur(p))
               /\ VectorsStored(p, cur(p))]_vars

\* Archiving failed on pablo: no file, and the rows and vectors are there.
C18_Witness ==
    \E p \in Pids :
        /\ pc[p] = "done"
        /\ Did(p, <<"coll.add", "pablo">>) /\ ~Did(p, <<"archive", "pablo">>)
        /\ archive["pablo"] = {}
        /\ \E r \in sources["pablo"] :
              /\ Cardinality({c \in chunks["pablo"] : c.source_id = r.id}) = 2
              /\ Cardinality({v \in vectors["pablo_kb"] : v.source_id = r.id}) = 2

\* C20: an embedding failure is fatal exactly when no chunk ends up
\* embedded: then the call returns success=false and writes no target;
\* with at least one embedded chunk it goes on to the target writes with
\* the embedded chunks, and the reported chunk count is their number.
C20_EmbeddingFatalIffNoChunks ==
    /\ [][\A p \in Pids :
            (pc[p] = "embed" /\ Moves(p) /\ pc'[p] # "idle")
                => IF Len(embeddedChunks'[p]) = 0
                   THEN /\ pc'[p] = "finally"
                        /\ pending'[p].status = "returned" /\ ~pending'[p].success
                        /\ pending'[p].error \in {ErrEmbedding, ErrNoChunks}
                   ELSE /\ pc'[p] = "target"
                        /\ pending'[p] = NoResult]_vars
    /\ [](\A p \in Pids :
            (pc[p] = "done" /\ result[p].status = "returned" /\ Called(p, "embedChunks"))
                => IF Len(embeddedChunks[p]) = 0
                   THEN /\ ~result[p].success
                        /\ ~InTargetPhase(p)
                        /\ ~Called(p, "COMMIT") /\ ~Called(p, "coll.add")
                        /\ ~Called(p, "archive")
                   ELSE result[p].error = ""
                           => result[p].chunks = Len(embeddedChunks[p]))
    /\ [][\A p \in Pids :
            (pc[p] = "commit" /\ pc'[p] = "addChunksToVectorStore")
                => {c.chunk_index : c \in chunks'[cur(p)] \ chunks[cur(p)]}
                      = {embeddedChunks[p][i].chunk_index : i \in 1..Len(embeddedChunks[p])}]_vars

\* The first batch of an eleven-chunk document failed; the call succeeded
\* with the one chunk of the second batch, which is the one chunk stored.
C20_Witness ==
    \E p \in Pids :
        /\ pc[p] = "done" /\ args[p] = CallLong
        /\ result[p].success /\ result[p].chunks = 1
        /\ \E c \in chunks["pablo"] : chunks["pablo"] = {c} /\ c.chunk_index = 10

\* ---------------------------------------------------------------------
\* The query engine.
HitUrls(h) == {h[i].metadata.url : i \in 1..Len(h)}
QueryCalled(f) == \E i \in 1..Len(aq.calls) : aq.calls[i] = f
Searched == aq.pc \in {"generateText", "done"} /\ QueryCalled("queryVectorStore")
                /\ aq.result.status # "thrown"

\* C21: for every list of search hits the sources hold exactly one entry
\* per distinct locator among the hits, that entry is a hit of the locator
\* with the lowest distance any hit of the locator has, the entries are in
\* non-decreasing order of distance, the numbered context handed to the
\* completion lists the same entries in the same order, and a successful
\* answer returns these sources.
C21_QueryDedup ==
    (Searched /\ aq.searchResults # <<>>)
        => LET h == aq.searchResults
               s == aq.sources
           IN /\ \A u \in HitUrls(h) : Cardinality({k \in 1..Len(s) : s[k].url = u}) = 1
              /\ \A k \in 1..Len(s) :
                    /\ \E i \in 1..Len(h) :
                          /\ h[i].metadata.url = s[k].url
                          /\ h[i].metadata.content = s[k].content
                          /\ h[i].distance = s[k].distance
                    /\ \A i \in 1..Len(h) :
                          h[i].metadata.url = s[k].url => s[k].distance <= h[i].distance
              /\ \A k \in 1..(Len(s) - 1) : s[k].distance <= s[k + 1].distance
              /\ Len(aq.context) = Len(s)
              /\ \A k \in 1..Len(s) :
                    /\ aq.context[k][2] = k
                    /\ aq.context[k][4] = s[k].url
                    /\ aq.context[k][5] = s[k].content
              /\ (aq.pc = "done" /\ aq.result.success) => aq.result.sources = s

\* Two hits of one locator, the farther one first, and a hit of another
\* locator in between: the answer has two sources.
C21_Witness ==
    /\ aq.pc = "done" /\ aq.result.success
    /\ Len(aq.searchResults) = 3 /\ Len(aq.sources) = 2
    /\ aq.searchResults[1].metadata.url = aq.searchResults[3].metadata.url
    /\ aq.searchResults[1].distance = 3 /\ aq.searchResults[3].distance = 1
    /\ aq.searchResults[2].distance = 3

\* C22: when no embedding provider answers for the question, answerQuery
\* returns success=false with an error string, and neither the Vector Index
\* was searched nor the completion invoked.
C22_EmbeddingFailureIsReturned ==
    (aq.pc \notin {"idle", "getEmbeddings"} /\ aq.query # "" /\ aq.queryVector = <<>>)
        => /\ aq.pc = "done"
           /\ aq.result.status = "returned" /\ ~aq.result.success
           /\ aq.result.error # ""
           /\ ~QueryCalled("queryVectorStore") /\ ~QueryCalled("generateText")

\* Both configured providers were tried and failed.
C22_Witness ==
    /\ aq.pc = "done" /\ aq.result = QFailure(ErrEmbedQuery)
    /\ aq.calls = <<"gemini", "openai">>

\* C23: when the search returns no hit, answerQuery returns success=true
\* with the 'no relevant context' answer and no sources, and the completion
\* is not invoked.
C23_NoHitsIsSuccess ==
    (Searched /\ aq.searchResults = <<>>)
        => /\ aq.pc = "done"
           /\ aq.result = QSuccess(NoContextAnswer, <<>>)
           /\ ~QueryCalled("generateText")

\* No hit came back although the target's collection has records.
C23_Witness ==
    /\ aq.pc = "done" /\ aq.result = QSuccess(NoContextAnswer, <<>>)
    /\ aq.target = "pablo" /\ vectors["pablo_kb"] # {}

\* C24: ingestSource and answerQuery hand their caller a result object;
\* no failure of a collaborator reaches the caller as an exception.
C24_AlwaysAResultObject ==
    /\ aq.result.status # "thrown"
    /\ \A p \in Pids : result[p].status # "thrown"

\* C25: a step of the query command leaves every Metadata Store, every
\* Vector Index (the collections that exist and their records), every
\* archive directory and the lock file as they were.
C25_QueryOnlyReads ==
    [][aq' # aq => UNCHANGED <<schema, sources, chunks, seq, vectors, collections,
                               archive, repoExists, lock>>]_vars

\* ---------------------------------------------------------------------
\* The vector records' keys.
\* C26: a record written to a target's Vector Index has a key that no
\* record written to that index before has, also after the target's
\* Metadata Store was reset and its source and chunk ids start again at 1.
C26_VectorKeysNeverReused ==
    [][\A p \in Pids :
        (pc[p] = "addChunksToVectorStore" /\ pc'[p] = "archive")
            => \A i \in 1..Len(embeddedChunks[p]) :
                 \A v \in vectors[collectionName(cur(p))] :
                    v.id # vectorId(sourceId[p], insertedChunkIds[p][i])]_vars

\* ---------------------------------------------------------------------
\* The embedder.
\* C27: what embedChunks has put out is a subsequence of its input: every
\* entry is an input chunk (same text, same chunk_index), the entries are
\* in strictly increasing chunk_index, and each carries the vector of
\* exactly its own text, whether it came from the cache or from a provider,
\* in the first batch or a later one; when no batch failed, the finished
\* call has one entry per input chunk.
C27_EmbedPreservesOrder ==
    LET out == eb.embeddedChunks IN
    /\ \A k \in 1..Len(out) :
          /\ out[k].chunk_index + 1 \in 1..Len(eb.chunks)
          /\ eb.chunks[out[k].chunk_index + 1].content = out[k].content
          /\ out[k].embedding = <<"vec", out[k].content>>
    /\ \A k \in 1..(Len(out) - 1) : out[k].chunk_index < out[k + 1].chunk_index
    /\ (eb.pc = "done" /\ eb.failed = {}) => Len(out) = Len(eb.chunks)

\* A finished call over two batches whose output holds cached entries and
\* an entry of the fallback provider, the first batch having found an
\* uncached text after a cached one.
C27_Witness ==
    /\ eb.pc = "done" /\ Len(eb.chunks) = 11 /\ Len(eb.embeddedChunks) = 11
    /\ eb.hits > 0 /\ eb.hits < 11
    /\ eb.embeddedChunks[1].embedding_provider = "google"
    /\ eb.embeddedChunks[2].embedding_provider = "openai"
    /\ \E i \in 1..Len(eb.calls) : eb.calls[i] = "openai"

\* ---------------------------------------------------------------------
\* The chunker.
\* C28: the empty text gives no chunk, a text that is one sentence longer
\* than chunkSize gives exactly one chunk, whose text is that sentence, and
\* no chunk has an empty text.
C28_ChunkEdgeCases ==
    ck.pc # "idle"
        => /\ ck.content = <<>> => ck.chunks = <<>>
           /\ (Len(ck.lens) = 1 /\ ck.lens[1] > chunkSize)
                 => ck.chunks = <<[content |-> ck.content, chunk_index |-> 0]>>
           /\ \A k \in 1..Len(ck.chunks) : ck.chunks[k].content # <<>>

\* The k-th sentence of the input, n characters long, is whole in the text
\* c: its n - 1 letters and its full stop, one after the other.
holdsSentence(c, k, n) ==
    \E o \in 0..(Len(c) - n) :
        /\ c[o + n] = "."
        /\ \A i \in 1..(n - 1) : c[o + i] = Letters[k]

\* The text with every run of white space made one blank and the white
\* space at its ends removed.
normalise(s) ==
    LET n == Len(s)
        dropped == {i \in 1..n : /\ isSpace(s[i])
                                  /\ \/ i = 1
                                     \/ isSpace(s[i - 1])
                                     \/ \A j \in (i + 1)..n : isSpace(s[j])}
        at(k) == CHOOSE i \in k..(k + Cardinality(dropped)) :
                    /\ i \notin dropped
                    /\ i - Cardinality({d \in dropped : d < i}) = k
    IN [k \in 1..(n - Cardinality(dropped)) |-> IF isSpace(s[at(k)]) THEN " " ELSE s[at(k)]]

\* The overlap a chunk hands to the next one: its last chunkOverlap
\* characters, all of it when it is shorter.
overlapOf(c) == SubSeq(c, (IF Len(c) > chunkOverlap THEN Len(c) - chunkOverlap ELSE 0) + 1, Len(c))

\* The chunk texts put together, each later one without its overlap.
withoutOverlaps(cs) ==
    LET F[k \in 0..Len(cs)] ==
            IF k = 0 THEN <<>>
            ELSE IF k = 1 THEN cs[1].content
            ELSE F[k - 1] \o SubSeq(cs[k].content, Len(overlapOf(cs[k - 1].content)) + 1,
                                    Len(cs[k].content))
    IN F[Len(cs)]

\* C29: every sentence of the text is whole in some chunk, the sentences
\* in the order of the chunks; every chunk after the first begins with the
\* overlap taken from the end of the chunk before it; and the chunk texts
\* put together without these overlaps are, white space normalised, the
\* text.
C29_ChunksLoseNothing ==
    ck.pc # "idle"
        => LET cs == ck.chunks
               n == Len(ck.lens)
           IN /\ \E f \in [1..n -> 1..Len(cs)] :
                    /\ \A k \in 1..(n - 1) : f[k] <= f[k + 1]
                    /\ \A k \in 1..n : holdsSentence(cs[f[k]].content, k, ck.lens[k])
              /\ \A k \in 2..Len(cs) :
                    LET o == overlapOf(cs[k - 1].content) IN
                    /\ Len(cs[k].content) >= Len(o)
                    /\ SubSeq(cs[k].content, 1, Len(o)) = o
              /\ normalise(withoutOverlaps(cs)) = normalise(ck.content)

\* Three sentences separated by blank lines became three chunks, the
\* later ones longer than the overlap they begin with.
C29_Witness ==
    /\ ck.pc = "chunked" /\ Len(ck.lens) = 3 /\ ck.sep = <<"\n", "\n">>
    /\ Len(ck.chunks) = 3
    /\ \A k \in 1..3 : Len(ck.chunks[k].content) > chunkOverlap

\* C30: chunkContent applied to the text of a chunk it returned gives one
\* chunk, with that text.
C30_ChunkingIdempotent ==
    ck.pc = "rechunked"
        => ck.again = <<[content |-> ck.chunks[ck.of].content, chunk_index |-> 0]>>

\* The rank of a logged collaborator call in the order of ingest.ts:82-138;
\* every per-target entry (skip, COMMIT, ROLLBACK, coll.add, archive) has
\* rank 5.
stage(e) == CASE e[1] = "ingestFromSource" -> 1
              [] e[1] = "getAllUniqueTags" -> 2
              [] e[1] = "classifyContent" -> 3
              [] e[1] = "embedChunks" -> 4
              [] OTHER -> 5

\* The number of calls of f in the call of p so far.
callsOf(p, f) == Cardinality({i \in 1..Len(log[p]) : log[p][i][1] = f})

\* Positions of the per-target part of ingestSource (ingest.ts:138-232).
TargetPhase == {"target", "initializeSchema", "dedup", "begin", "insertSource",
                "insertChunk", "commit", "rollback", "addChunksToVectorStore",
                "archive"}

\* What the targets hold.
targetData == <<schema, sources, chunks, seq, vectors, collections, archive>>

\* C31: whatever the number of requested targets, a call runs the extractor
\* and the chunking and embedding step at most once and in the order lock
\* acquisition, extraction, tag listing, classification, chunking and
\* embedding; a call that is in its target loop has run each of them exactly
\* once, and no step of a call before its target loop changes any target.
C31_PipelineOnceBeforeWrites ==
    [][\A p \in Pids :
        /\ callsOf(p, "ingestFromSource")' <= 1
        /\ callsOf(p, "embedChunks")' <= 1
        /\ \A i, j \in 1..Len(log'[p]) :
              (i < j /\ stage(log'[p][i]) < 5) => stage(log'[p][i]) < stage(log'[p][j])
        /\ log'[p] # <<>> => acquired'[p]
        /\ pc'[p] \in TargetPhase =>
              {stage(log'[p][i]) : i \in 1..Len(log'[p])} \ {5} = 1..4
        /\ (Moves(p) /\ pc[p] \notin TargetPhase) => UNCHANGED targetData]_vars

\* A call with two targets has written both of them after one extraction
\* and one embedding.
C31_Witness ==
    \E p \in Pids :
        /\ Len(args[p].targetKeys) = 2
        /\ Did(p, <<"coll.add", args[p].targetKeys[1]>>)
        /\ Did(p, <<"coll.add", args[p].targetKeys[2]>>)
        /\ callsOf(p, "ingestFromSource") = 1
        /\ callsOf(p, "embedChunks") = 1

\* ---------------------------------------------------------------------
\* The embedding providers.
\* The provider calls and waits of the batch this step processes.
batchCalls == SubSeq(eb'.calls, Len(eb.calls) + 1, Len(eb'.calls))

\* n attempts of capability c with the backoff of 1 s and 2 s between them.
attempts(c, n) == CASE n = 0 -> <<>>
                    [] n = 1 -> <<c>>
                    [] n = 2 -> <<c, "wait 1000", c>>
                    [] n = 3 -> <<c, "wait 1000", c, "wait 2000", c>>

\* The step processes a batch, and the batch comes out without a result
\* for its uncached texts.
BatchLost == eb.pc = "batch" /\ eb'.failed # eb.failed

\* C32: the calls made for a batch are up to three attempts of the primary
\* capability followed by up to three attempts of the fallback, each with a
\* wait of 1 s after its first failed attempt and 2 s after its second; the
\* fallback is called only after three attempts of the primary, and a
\* capability is given up (the batch left without result) only after its
\* third attempt.
C32_EveryCapabilityRetried ==
    [][eb.pc = "batch" =>
        \E g, o \in 0..3 :
            /\ batchCalls = attempts("google", g) \o attempts("openai", o)
            /\ o > 0 => g = 3
            /\ (BatchLost /\ o > 0) => o = 3]_vars

\* The capability named c has its credential configured.
configured(c) == IF c = "google" THEN eb.google ELSE eb.openai

\* C33: embedChunks calls a capability only if its API key is configured.
C33_UnconfiguredNeverCalled ==
    [][eb.pc = "batch" =>
        \A k \in 1..Len(batchCalls) :
            batchCalls[k] \in {"google", "openai"} => configured(batchCalls[k])]_vars

\* The step processes a batch for which every capability was called and
\* failed: three attempts of the primary and, when configured, the fallback.
BatchExhausted == BatchLost /\ Len(batchCalls) >= 5

\* C34: a batch whose capabilities are all exhausted adds no entry to the
\* output of embedChunks, leaves the cache as it was, and the batches after
\* it are still processed.
C34_ExhaustedBatchContributesNothing ==
    [][BatchExhausted =>
        /\ eb'.embeddedChunks = eb.embeddedChunks
        /\ eb'.cache = eb.cache
        /\ eb.i + batchSize < Len(eb.chunks) => eb'.pc = "batch"]_vars

\* ---------------------------------------------------------------------
\* The lock file and its holder.
\* The lock file records process q, and q is a running ingestion between
\* its createLock and its removeLock.
HeldBy(q) ==
    /\ lock # NoLock /\ lock.pid = q
    /\ q \in running /\ acquired[q] /\ pc[q] \in PipelinePhase

\* C35: no call removes the lock file that records another running
\* ingestion: the unlink of a call's removeLock never deletes a lock file
\* held by a different live call.
C35_NeverDeletesOthersLock ==
    [][\A p, q \in Pids :
        (p # q /\ pc[p] = "unlink" /\ pc'[p] = "done") => ~HeldBy(q)]_vars

\* ---------------------------------------------------------------------
\* Rows and vector records of one written target.
\* The chunk rows and the vector records that target t holds for the source
\* id of the call of p.
rowsOf(p, t) == {c \in chunks[t] : c.source_id = sourceId[p]}
recordsOf(p, t) == {v \in vectors[collectionName(t)] : v.source_id = sourceId[p]}

\* With this step the call of p counts the target it is at as written.
ReportsTarget(p) ==
    pc[p] = "archive" /\ successfullyIngestedTargets'[p] # successfullyIngestedTargets[p]

\* C36: when a call counts a target it has just written as successful, the
\* target holds n chunk rows and n vector records for the new source, n
\* being the number of embedded chunks the result reports, and the i-th
\* vector record has the key built from the i-th inserted chunk row, that
\* row's text and the i-th embedding.
C36_RowsVectorsCountAgree ==
    [][\A p \in Pids :
        /\ ReportsTarget(p) =>
             LET t == cur(p)
                 n == Len(embeddedChunks[p]) IN
             /\ Len(insertedChunkIds[p]) = n
             /\ Cardinality(rowsOf(p, t)) = n
             /\ Cardinality(recordsOf(p, t)) = n
             /\ \A i \in 1..n :
                   \E c \in rowsOf(p, t), v \in recordsOf(p, t) :
                       /\ c.id = insertedChunkIds[p][i]
                       /\ c.chunk_index = embeddedChunks[p][i].chunk_index
                       /\ v.id = vectorId(sourceId[p], c.id)
                       /\ v.content = c.content
                       /\ v.embedding = embeddedChunks[p][i].embedding
        /\ (Returns(p) /\ result'[p].targets # <<>>) =>
             result'[p].chunks = Len(embeddedChunks[p])]_vars

\* ---------------------------------------------------------------------
\* Vector records and the rows they refer to.
\* The chunk id a vector record's key was built from (vector-store.ts:52).
chunkIdOf(v) == v.id[3]

\* C37: as long as no Metadata Store is deleted by hand, every vector record
\* of a target's index refers to a Source row and to a Chunk row of that
\* source which exist in the same target's Metadata Store, whatever calls
\* failed, crashed or ran side by side before.
C37_NoOrphanedVectors ==
    ~May("reset") =>
        \A t \in TARGETS : \A v \in vectors[collectionName(t)] :
            /\ \E s \in sources[t] : s.id = v.source_id
            /\ \E c \in chunks[t] : c.id = chunkIdOf(v) /\ c.source_id = v.source_id

\* A call whose metadata transaction failed on one target has added vector
\* records to another.
C37_Witness ==
    /\ ~May("reset")
    /\ \E p \in Pids : \E t, u \in TARGETS :
          /\ Did(p, <<"ROLLBACK", u>>)
          /\ Did(p, <<"coll.add", t>>)
          /\ vectors[collectionName(t)] # {}
          /\ vectors[collectionName(u)] = {}

\* ---------------------------------------------------------------------
\* The trailing buffer of the chunker.
\* C38: the trailing-merge rule of chunkContent never applies: once a chunk
\* has been closed the buffer left at the end is longer than minChunkSize,
\* so a text that is not empty gives one chunk more than chunks were closed
\* in the loop, and every chunk after the first is longer than chunkOverlap.
C38_TrailingMergeNeverApplies ==
    ck.pc # "idle" =>
        /\ ck.closed > 0 => Len(ck.trailing) > minChunkSize
        /\ ck.content # <<>> => Len(ck.chunks) = ck.closed + 1
        /\ \A k \in 2..Len(ck.chunks) : Len(ck.chunks[k].content) > chunkOverlap

\* A chunk was closed by a last sentence of 40 characters: the buffer left
\* is the overlap, a blank and that sentence.
C38_Witness ==
    /\ ck.pc = "chunked" /\ ck.closed > 0
    /\ ck.lens[Len(ck.lens)] = 40
    /\ Len(ck.trailing) = 200 + 1 + 40
    /\ ck.chunks[Len(ck.chunks)].content = ck.trailing

\* ---------------------------------------------------------------------
\* The reference target of the tag vocabulary.
\* With this step the call of p reads the tag vocabulary.
ReadsTags(p) == pc[p] = "getAllUniqueTags" /\ Moves(p) /\ pc'[p] # "idle"

\* The database of the 'reels' target can be read for its tags.
ReelsReadable == repoExists["reels"] /\ schema["reels"]

IngestedInto(t) == {s.url : s \in sources[t]}

====
